---- MODULE Spec2Model ----
(***************************************************************************)
(* Model of the novel document store (file_manager.py) and of the parts    *)
(* of the session that call into it (ui_file_operations.py,                *)
(* character_manager.py, main_app.py).                                     *)
(*                                                                         *)
(* The file system is a function from paths to files; a file is the text   *)
(* json.dump wrote (a sequence of tokens) and its modification time.  Time *)
(* is the wall clock in whole seconds, the resolution of every strftime    *)
(* stamp the code puts into a file name.                                   *)
(***************************************************************************)
EXTENDS Integers, Sequences, FiniteSets, TLC

VARIABLES
    clock,            \* datetime.now(), in seconds
    fs,               \* the disk: path -> [text, mtime]
    current_file_path,\* st.session_state.current_file_path (NoPath = None)
    novel_data,       \* st.session_state.novel_data, the caller's dict
    unsaved_changes,  \* st.session_state.unsaved_changes
    ret,              \* what the last store operation returned
    prev,             \* history: what the operation before it returned
    usedNames,        \* history: every document path a create has produced
    nBackups,         \* history: number of create_backup calls that succeeded
    nFaults,          \* history: number of failures injected so far
    nOps,             \* history: number of operations called so far
    pc,               \* position inside an interruptible save_file
    sv,               \* locals of the save_file in progress
    last_auto_save,   \* st.session_state.last_auto_save (Unset = absent)
    auto_save_toggle, \* st.session_state.auto_save_toggle
    taken,            \* history: backup path -> text its document had when
                      \* an explicit create_backup returned it
    session           \* st.session_state: the keys of the chapter and file views

vars == <<clock, fs, current_file_path, novel_data, unsaved_changes, ret, prev,
          usedNames, nBackups, nFaults, nOps, pc, sv, last_auto_save, auto_save_toggle, taken, session>>

-----------------------------------------------------------------------------
(* Bounds *)

MaxClock == 1
MaxVersion == 13
MaxOps == 4
MaxFaults == 1
MaxBackupClock == 10
MaxCharacters == 3
MaxCharacterOps == 2
MaxChapters == 3
MaxChapterNumber == 3
MaxCopyOps == 3
MaxAutoClock == 64
MaxAutoOps == 4
MaxChapterRuns == 3

-----------------------------------------------------------------------------
(* Characters and titles *)

Alnum == {"D", "u", "n", "e", "I", "a", "b"}

Ord ==
    [c \in Alnum \cup {" ", "-", "_", "?", "U", "t", "i", "l", "d", "A", "B", "C", "c"} |->
        CASE c = "D" -> 68 [] c = "u" -> 117 [] c = "n" -> 110 [] c = "e" -> 101
          [] c = "I" -> 73 [] c = "a" -> 97  [] c = "b" -> 98  [] c = " " -> 32
          [] c = "-" -> 45 [] c = "_" -> 95  [] c = "?" -> 63
          [] c = "U" -> 85 [] c = "t" -> 116 [] c = "i" -> 105 [] c = "l" -> 108
          [] c = "d" -> 100 [] c = "A" -> 65 [] c = "B" -> 66 [] c = "C" -> 67
          [] c = "c" -> 99]

\* ord(c.lower())
LowerOrd(c) == IF Ord[c] \in 65..90 THEN Ord[c] + 32 ELSE Ord[c]

Titles == { <<"D", "u", "n", "e", " ", "I", "I">>, <<"a", "?", " ">> }

RECURSIVE rstrip(_)
rstrip(s) ==
    IF s = <<>> THEN s
    ELSE IF s[Len(s)] = " " THEN rstrip(SubSeq(s, 1, Len(s) - 1)) ELSE s

\* mutant: spaces are stripped as well
IsSafeChar_no_space(c) == c \in Alnum \/ c \in {"-", "_"}

\* c.isalnum() or c in (' ', '-', '_')
IsSafeChar(c) == c \in Alnum \/ c \in {" ", "-", "_"}

safe_title(title) == rstrip(SelectSeq(title, IsSafeChar))

-----------------------------------------------------------------------------
(* generate_file_id: the first 8 hex digits of a digest of "title_timestamp". *)
(* MD5 is replaced by a polynomial digest of the same input, 24 bits wide,    *)
(* printed as 8 hex digits.                                                   *)

DigestWidth == 16777216

HexDigits == <<"0", "1", "2", "3", "4", "5", "6", "7",
               "8", "9", "a", "b", "c", "d", "e", "f">>

RECURSIVE digest(_, _)
digest(h, s) ==
    IF s = <<>> THEN h
    ELSE digest((h * 31 + Ord[Head(s)]) % DigestWidth, Tail(s))

RECURSIVE pow16(_)
pow16(n) == IF n = 0 THEN 1 ELSE 16 * pow16(n - 1)

hexdigest8(h) == [i \in 1..8 |-> HexDigits[((h \div pow16(8 - i)) % 16) + 1]]

generate_file_id(title, now) ==
    hexdigest8((digest(digest(7, title), <<"_">>) * 31 + now) % DigestWidth)

-----------------------------------------------------------------------------
(* Paths *)

\* 'last_auto_save' not in st.session_state
Unset == -1

NoPath == [dir |-> "", stem |-> <<>>, ts |-> 0]

NovelPath(stem) == [dir |-> "novels", stem |-> stem, ts |-> 0]
\* mutant: the save writes straight into the target file
TempPath_in_place(p) == p

\* filepath + '.tmp'
TempPath(p) == [dir |-> "novels.tmp", stem |-> p.stem, ts |-> 0]
BackupPath(stem, now) == [dir |-> "backups", stem |-> stem, ts |-> now]
ArchivePath(stem, now) == [dir |-> "archives", stem |-> stem, ts |-> now]

\* f"{safe_title}_{file_id}.novel"
Filename(p) == p.stem[1] \o <<"_">> \o p.stem[2] \o <<".novel">>

Put(f, p, file) == [q \in (DOMAIN f) \cup {p} |-> IF q = p THEN file ELSE f[q]]
Remove(f, p) == [q \in (DOMAIN f) \ {p} |-> f[q]]

Dir(f, d) == {p \in DOMAIN f : p.dir = d}

-----------------------------------------------------------------------------
(* json.dump / json.load.  The text of a document is an opening brace, one  *)
(* <<key, value>> token per key, and a closing brace.  A text that was cut   *)
(* short does not parse.                                                     *)

KeyOrder == <<"title", "author", "genre", "language", "status", "metadata",
              "characters", "chapters", "world_building", "settings", "outline">>

EmptyDict == [k \in {} |-> 0]

LBrace == <<"{", <<>>>>
RBrace == <<"}", <<>>>>

json_dump(d) ==
    LET keys == SelectSeq(KeyOrder, LAMBDA k : k \in DOMAIN d)
    IN  <<LBrace>> \o [i \in 1..Len(keys) |-> <<keys[i], d[keys[i]]>>] \o <<RBrace>>

json_valid(text) ==
    /\ Len(text) >= 2
    /\ text[1] = LBrace
    /\ text[Len(text)][1] = "}"

json_load(text) ==
    LET body == SubSeq(text, 2, Len(text) - 1)
        keys == {body[i][1] : i \in 1..Len(body)}
    IN  [k \in keys |-> body[CHOOSE i \in 1..Len(body) : body[i][1] = k][2]]

File(text, mtime) == [text |-> text, mtime |-> mtime]

\* a write that raised part-way: the first n tokens reached the disk
Truncated(text, n) == SubSeq(text, 1, n)

-----------------------------------------------------------------------------
(* Dict helpers *)

SetKey(d, k, v) == [x \in (DOMAIN d) \cup {k} |-> IF x = k THEN v ELSE d[x]]
SetDefault(d, k, v) == IF k \in DOMAIN d THEN d ELSE SetKey(d, k, v)

Min(S) == CHOOSE x \in S : \A y \in S : x <= y

-----------------------------------------------------------------------------
(* FileManager.create_backup.  Returns the set of outcomes the call can     *)
(* have: the disk afterwards and the returned backup path (NoPath for the   *)
(* "" a failed backup returns).  faults names the failures the environment  *)
(* may inject: "copy" (shutil.copy2 raises), "clean" (listing or removing   *)
(* old backups raises).                                                     *)

KeepBackups == 10

\* the sets of backups that sorted(..., key=getmtime)[:-10] can select: the
\* order of files with equal mtime is the order os.listdir returns, which
\* is arbitrary
OldBackups(f) ==
    LET backups == Dir(f, "backups")
    IN  IF Cardinality(backups) > KeepBackups
        THEN {D \in SUBSET backups :
                /\ Cardinality(backups \ D) = KeepBackups
                /\ \A d \in D : \A k \in backups \ D : f[d].mtime <= f[k].mtime}
        ELSE {{}}

RemoveAll(f, D) == [q \in (DOMAIN f) \ D |-> f[q]]

\* mutant: the failure of a backup is not caught and reaches the caller
create_backup_raising(f, now, filepath, faults) ==
    LET backup_file == BackupPath(filepath.stem, now)
        copied == Put(f, backup_file, f[filepath])
    IN  IF filepath \notin DOMAIN f
        THEN {[fs |-> f, backup |-> NoPath, fault |-> "none", raised |-> TRUE]}
        ELSE {[fs |-> RemoveAll(copied, D), backup |-> backup_file, fault |-> "none",
               raised |-> FALSE] : D \in OldBackups(copied)}
             \cup (IF "copy" \in faults
                   THEN {[fs |-> f, backup |-> NoPath, fault |-> "copy", raised |-> TRUE]}
                   ELSE {})
             \cup (IF "clean" \in faults
                   THEN {[fs |-> copied, backup |-> NoPath, fault |-> "clean", raised |-> TRUE]}
                   ELSE {})

\* raised: an exception left the call; the except clause of lines 186-188
\* catches every failure, so it never does
create_backup(f, now, filepath, faults) ==
    LET backup_file == BackupPath(filepath.stem, now)
        copied == Put(f, backup_file, f[filepath])
    IN  IF filepath \notin DOMAIN f
        THEN {[fs |-> f, backup |-> NoPath, fault |-> "none", raised |-> FALSE]}
        ELSE {[fs |-> RemoveAll(copied, D), backup |-> backup_file, fault |-> "none",
               raised |-> FALSE] : D \in OldBackups(copied)}
             \cup (IF "copy" \in faults
                   THEN {[fs |-> f, backup |-> NoPath, fault |-> "copy", raised |-> FALSE]}
                   ELSE {})
             \cup (IF "clean" \in faults
                   THEN {[fs |-> copied, backup |-> NoPath, fault |-> "clean", raised |-> FALSE]}
                   ELSE {})

-----------------------------------------------------------------------------
(* Outcomes of a store operation: the returned flag, message and path, the  *)
(* caller's dict as the call left it, the disk afterwards, what the nested  *)
(* create_backup returned and the failure that was injected, if any.        *)

Outcome(ok, msg, path, doc, f, backup, fault) ==
    [ok |-> ok, msg |-> msg, path |-> path, doc |-> doc, fs |-> f, backup |-> backup,
     fault |-> fault]

\* mutant: the check forgets the last required field
required_fields_without_language == <<"title", "author", "genre">>

required_fields == <<"title", "author", "genre", "language">>

NewMetadata(file_id, now) ==
    [created |-> now, modified |-> now, version |-> 10, file_id |-> file_id,
     word_count |-> 0, character_count |-> 0, chapter_count |-> 0]

\* mutant: the sanitized title is stored in place of the title
WithNewStructure_safe_title(d, file_id, now) ==
    SetDefault(SetDefault(SetDefault(SetDefault(SetDefault(
        SetKey(SetKey(d, "title", safe_title(d["title"])),
               "metadata", NewMetadata(file_id, now)),
        "characters", <<>>), "chapters", <<>>), "world_building", EmptyDict),
        "settings", EmptyDict), "outline", <<>>)

\* lines 42-58: metadata replaced, missing containers defaulted
WithNewStructure(d, file_id, now) ==
    SetDefault(SetDefault(SetDefault(SetDefault(SetDefault(
        SetKey(d, "metadata", NewMetadata(file_id, now)),
        "characters", <<>>), "chapters", <<>>), "world_building", EmptyDict),
        "settings", EmptyDict), "outline", <<>>)

\* mutant: the derived path is never found to exist
path_exists_never(f, filepath) == FALSE

\* os.path.exists(filepath)
path_exists(f, filepath) == filepath \in DOMAIN f

(* FileManager.create_new_novel *)
create_new_novel(f, now, input, faults) ==
    LET missing == {i \in 1..Len(required_fields) : required_fields[i] \notin DOMAIN input}
    IN  IF missing # {}
        THEN {Outcome(FALSE, <<"Missing required field", required_fields[Min(missing)]>>,
                      NoPath, input, f, NoPath, "none")}
        ELSE
        LET file_id == generate_file_id(input["title"], now)
            filepath == NovelPath(<<safe_title(input["title"]), file_id>>)
            doc == WithNewStructure(input, file_id, now)
            text == json_dump(doc)
        IN  IF path_exists(f, filepath)
            THEN {Outcome(FALSE, <<"File already exists">>, NoPath, input, f, NoPath, "none")}
            ELSE
              {Outcome(~b.raised,
                       IF b.raised THEN <<"Error creating file">> ELSE <<"created">>,
                       IF b.raised THEN NoPath ELSE filepath,
                       doc, b.fs, b.backup, b.fault) :
                  b \in create_backup(Put(f, filepath, File(text, now)), now, filepath, faults)}
              \cup
              (IF "write" \in faults
               THEN {Outcome(FALSE, <<"Error creating file">>, NoPath, doc,
                             Put(f, filepath, File(Truncated(text, n), now)), NoPath, "write") :
                        n \in {0, Len(text) - 1}}
               ELSE {})

\* mutant: a save stamps created as well
StampSave_created(d, now) ==
    IF "metadata" \in DOMAIN d
    THEN LET m == d["metadata"]
             v == IF "version" \in DOMAIN m THEN m["version"] ELSE 10
         IN  SetKey(d, "metadata",
                    SetKey(SetKey(SetKey(m, "modified", now), "created", now), "version", v + 1))
    ELSE d

\* lines 97-100: modified stamped, version raised by 0.1.  The version is
\* kept in tenths: 10 is "1.0", and str(float(v) + 0.1) is the next tenth
\* (up to the float's rounding error, which never reaches a tenth).
StampSave(d, now) ==
    IF "metadata" \in DOMAIN d
    THEN LET m == d["metadata"]
             v == IF "version" \in DOMAIN m THEN m["version"] ELSE 10
         IN  SetKey(d, "metadata", SetKey(SetKey(m, "modified", now), "version", v + 1))
    ELSE d

(* FileManager.save_file *)
save_file(f, now, filepath, input, auto_backup, faults) ==
    LET doc == StampSave(input, now)
        text == json_dump(doc)
        temp_file == TempPath(filepath)
        written == Put(f, temp_file, File(text, now))
        moved == Put(Remove(written, temp_file), filepath, written[temp_file])
    IN  (IF auto_backup
         THEN {Outcome(~b.raised,
                       IF b.raised THEN <<"Error saving file">> ELSE <<"File saved successfully">>,
                       filepath, doc, b.fs, b.backup, b.fault) :
                  b \in create_backup(moved, now, filepath, faults)}
         ELSE {Outcome(TRUE, <<"File saved successfully">>, filepath, doc, moved, NoPath, "none")})
        \cup
        (IF "write" \in faults
         THEN {Outcome(FALSE, <<"Error saving file">>, filepath, doc,
                       Put(f, temp_file, File(Truncated(text, n), now)), NoPath, "write") :
                  n \in {0, Len(text) - 1}}
         ELSE {})

(* FileManager.open_novel *)
open_novel(f, now, filepath, faults) ==
    IF filepath \notin DOMAIN f
    THEN {Outcome(FALSE, <<"File not found">>, filepath, EmptyDict, f, NoPath, "none")}
    ELSE IF ~json_valid(f[filepath].text)
    THEN {Outcome(FALSE, <<"Invalid file format">>, filepath, EmptyDict, f, NoPath, "none")}
    ELSE
    LET loaded == json_load(f[filepath].text)
    IN  IF "metadata" \in DOMAIN loaded
        THEN LET stamped == SetKey(loaded, "metadata",
                                   SetKey(loaded["metadata"], "last_opened", now))
             IN  {Outcome(TRUE, <<"File opened successfully">>, filepath, s.doc, s.fs, s.backup, s.fault) :
                     s \in save_file(f, now, filepath, stamped, TRUE, faults)}
        ELSE {Outcome(TRUE, <<"File opened successfully">>, filepath, loaded, f, NoPath, "none")}

\* mutant: the copy starts without the chapters of the source
save_as_without_chapters(f, now, old_filepath, new_title, faults) ==
    IF old_filepath \notin DOMAIN f \/ ~json_valid(f[old_filepath].text)
    THEN {Outcome(FALSE, <<"Error in save as">>, NoPath, EmptyDict, f, NoPath, "none")}
    ELSE
    LET loaded == SetKey(SetKey(json_load(f[old_filepath].text), "title", new_title),
                         "chapters", <<>>)
    IN  {IF c.ok THEN c
         ELSE Outcome(FALSE, <<"Failed to create new file">>, NoPath, c.doc, c.fs, NoPath, c.fault) :
            c \in create_new_novel(f, now, loaded, faults)}

(* FileManager.save_as *)
save_as(f, now, old_filepath, new_title, faults) ==
    IF old_filepath \notin DOMAIN f \/ ~json_valid(f[old_filepath].text)
    THEN {Outcome(FALSE, <<"Error in save as">>, NoPath, EmptyDict, f, NoPath, "none")}
    ELSE
    LET loaded == SetKey(json_load(f[old_filepath].text), "title", new_title)
    IN  {IF c.ok THEN c
         ELSE Outcome(FALSE, <<"Failed to create new file">>, NoPath, c.doc, c.fs, NoPath, c.fault) :
            c \in create_new_novel(f, now, loaded, faults)}

(* FileManager.delete_file *)
delete_file(f, now, filepath, move_to_trash) ==
    IF filepath \notin DOMAIN f
    THEN Outcome(FALSE, <<"File not found">>, filepath, EmptyDict, f, NoPath, "none")
    ELSE IF move_to_trash
    THEN LET archive_file == ArchivePath(filepath.stem, now)
         IN  Outcome(TRUE, <<"File moved to archive">>, archive_file, EmptyDict,
                     Put(Remove(f, filepath), archive_file, f[filepath]), NoPath, "none")
    ELSE Outcome(TRUE, <<"File permanently deleted">>, filepath, EmptyDict,
                 Remove(f, filepath), NoPath, "none")

(* FileManager.restore_backup *)
restore_backup(f, now, backup_file, target_file) ==
    IF backup_file \notin DOMAIN f
    THEN Outcome(FALSE, <<"restore failed">>, target_file, EmptyDict, f, NoPath, "none")
    ELSE Outcome(TRUE, <<"restored">>, target_file, EmptyDict,
                 Put(f, target_file, f[backup_file]), backup_file, "none")

-----------------------------------------------------------------------------
(* Inputs *)

FullInput(title) ==
    [k \in {"title", "author", "genre", "language"} |->
        CASE k = "title" -> title
          [] k = "author" -> "A"
          [] k = "genre" -> <<"Sci-Fi">>
          [] k = "language" -> "English"]

Restrict(d, K) == [k \in K |-> d[k]]

\* creation inputs: every required field present, or some of them absent
CreateInputs ==
    {FullInput(t) : t \in Titles}
    \cup {Restrict(FullInput(<<"D", "u", "n", "e", " ", "I", "I">>),
                   {"title", "author", "genre", "language"} \ {k}) :
             k \in {"title", "author", "genre", "language"}}

Statuses == {"writing"}

\* failures the environment can inject into a store operation
Faults == {"write", "copy", "clean"}

\* stored: the text at the returned path when the operation returned;
\* raised: an exception left the operation instead of a return value
Returned(op, o, input) ==
    [op |-> op, ok |-> o.ok, msg |-> o.msg, path |-> o.path, doc |-> o.doc,
     input |-> input, backup |-> o.backup, fault |-> o.fault,
     stored |-> IF o.path \in DOMAIN o.fs THEN o.fs[o.path].text ELSE <<>>,
     raised |-> FALSE]

NoReturn ==
    [op |-> "none", ok |-> FALSE, msg |-> <<>>, path |-> NoPath, doc |-> EmptyDict,
     input |-> EmptyDict, backup |-> NoPath, fault |-> "none", stored |-> <<>>,
     raised |-> FALSE]

Injected(o) == IF o.fault # "none" THEN nFaults + 1 ELSE nFaults

Count(o) == IF o.backup # NoPath THEN nBackups + 1 ELSE nBackups

\* no backup recorded yet
NoneTaken == [p \in {} |-> <<>>]

\* st.session_state without any key of the chapter view
NoSession ==
    [writing_new_chapter |-> FALSE, editing_chapter |-> Unset,
     current_chapter_number |-> Unset]

NoSave ==
    [caller |-> "none", path |-> NoPath, doc |-> EmptyDict, text |-> <<>>,
     existed |-> FALSE, before |-> <<>>]

VersionOf(d) ==
    IF "metadata" \in DOMAIN d /\ "version" \in DOMAIN d["metadata"]
    THEN d["metadata"]["version"] ELSE 10

-----------------------------------------------------------------------------
(* The store's state after construction: an empty novels directory, no      *)
(* document open.                                                           *)

Init ==
    /\ clock = 0
    /\ fs = [p \in {} |-> 0]
    /\ current_file_path = NoPath
    /\ novel_data = EmptyDict
    /\ unsaved_changes = FALSE
    /\ ret = NoReturn
    /\ prev = NoReturn
    /\ usedNames = {}
    /\ nBackups = 0
    /\ nFaults = 0
    /\ nOps = 0
    /\ pc = "idle"
    /\ sv = NoSave
    /\ last_auto_save = Unset
    /\ auto_save_toggle = TRUE
    /\ taken = NoneTaken
    /\ session = NoSession

Idle == pc = "idle"

\* a run makes at most MaxOps calls
Within == nOps < MaxOps

Tick ==
    /\ Idle
    /\ clock < MaxClock
    /\ clock' = clock + 1
    /\ UNCHANGED <<fs, current_file_path, novel_data, unsaved_changes, ret, prev,
                   usedNames, nBackups, nFaults, nOps, pc, sv,
                   last_auto_save, auto_save_toggle, taken, session>>

(* a caller creates a document *)
Create(input, faults) ==
    /\ Idle
    /\ nOps' = nOps + 1
    /\ \E o \in create_new_novel(fs, clock, input, faults) :
          /\ fs' = o.fs
          /\ ret' = Returned("create", o, input)
          /\ prev' = ret
          /\ usedNames' = IF o.ok THEN usedNames \cup {o.path} ELSE usedNames
          /\ nBackups' = Count(o)
          /\ nFaults' = Injected(o)
    /\ UNCHANGED <<clock, current_file_path, novel_data, unsaved_changes, pc, sv,
                   last_auto_save, auto_save_toggle, taken, session>>

(* FileOperationsUI.open_file: open_novel, and on success the session takes *)
(* the returned document                                                    *)
Open(filepath, faults) ==
    /\ Idle
    /\ nOps' = nOps + 1
    /\ filepath \in DOMAIN fs /\ json_valid(fs[filepath].text)
            => VersionOf(json_load(fs[filepath].text)) < MaxVersion
    /\ \E o \in open_novel(fs, clock, filepath, faults) :
          /\ fs' = o.fs
          /\ ret' = Returned("open", o, EmptyDict)
          /\ prev' = ret
          /\ nBackups' = Count(o)
          /\ nFaults' = Injected(o)
          /\ IF o.ok
             THEN /\ current_file_path' = filepath
                  /\ novel_data' = o.doc
                  /\ unsaved_changes' = FALSE
             ELSE UNCHANGED <<current_file_path, novel_data, unsaved_changes>>
    /\ UNCHANGED <<clock, usedNames, pc, sv,
                   last_auto_save, auto_save_toggle, taken, session>>

(* FileOperationsUI.save_current_file *)
Save(faults) ==
    /\ Idle
    /\ nOps' = nOps + 1
    /\ current_file_path # NoPath /\ novel_data # EmptyDict
    /\ VersionOf(novel_data) < MaxVersion
    /\ \E o \in save_file(fs, clock, current_file_path, novel_data, TRUE, faults) :
          /\ fs' = o.fs
          /\ ret' = Returned("save", o, novel_data)
          /\ prev' = ret
          /\ novel_data' = o.doc
          /\ nBackups' = Count(o)
          /\ nFaults' = Injected(o)
          /\ unsaved_changes' = IF o.ok THEN FALSE ELSE unsaved_changes
    /\ UNCHANGED <<clock, current_file_path, usedNames, pc, sv,
                   last_auto_save, auto_save_toggle, taken, session>>

(* a caller saves a stored document under a new title *)
SaveAs(old_filepath, new_title, faults) ==
    /\ Idle
    /\ nOps' = nOps + 1
    /\ \E o \in save_as(fs, clock, old_filepath, new_title, faults) :
          /\ fs' = o.fs
          /\ ret' = Returned("save_as", o, EmptyDict)
          /\ prev' = ret
          /\ usedNames' = IF o.ok THEN usedNames \cup {o.path} ELSE usedNames
          /\ nBackups' = Count(o)
          /\ nFaults' = Injected(o)
    /\ UNCHANGED <<clock, current_file_path, novel_data, unsaved_changes, pc, sv,
                   last_auto_save, auto_save_toggle, taken, session>>

(* a caller deletes or archives a document *)
Delete(filepath, move_to_trash) ==
    /\ Idle
    /\ nOps' = nOps + 1
    /\ LET o == delete_file(fs, clock, filepath, move_to_trash)
       IN  /\ fs' = o.fs
           /\ ret' = [Returned("delete", o, EmptyDict) EXCEPT !.input = [trash |-> move_to_trash]]
           /\ prev' = ret
    /\ UNCHANGED <<clock, current_file_path, novel_data, unsaved_changes,
                   usedNames, nBackups, nFaults, pc, sv,
                   last_auto_save, auto_save_toggle, taken, session>>

(* a caller backs a document up *)
CreateBackup(filepath, faults) ==
    /\ Idle
    /\ nOps' = nOps + 1
    /\ \E b \in create_backup(fs, clock, filepath, faults) :
          /\ fs' = b.fs
          /\ ret' = Returned("backup",
                       Outcome(b.backup # NoPath, <<>>, filepath, EmptyDict, b.fs, b.backup, b.fault),
                       EmptyDict)
          /\ prev' = ret
          /\ nBackups' = Count(b)
          /\ nFaults' = Injected(b)
          /\ taken' = IF b.backup # NoPath /\ filepath \in DOMAIN fs
                       THEN Put(taken, b.backup, fs[filepath].text)
                       ELSE taken
    /\ UNCHANGED <<clock, current_file_path, novel_data, unsaved_changes,
                   usedNames, pc, sv,
                   last_auto_save, auto_save_toggle, session>>

(* NovelCraftApp.update_novel_status *)
UpdateNovelStatus(status) ==
    /\ Idle
    /\ nOps' = nOps + 1
    /\ current_file_path # NoPath
    /\ novel_data' = SetKey(novel_data, "status", status)
    /\ unsaved_changes' = TRUE
    /\ ret' = [NoReturn EXCEPT !.op = "edit"]
    /\ prev' = ret
    /\ UNCHANGED <<clock, fs, current_file_path, usedNames, nBackups, nFaults, pc, sv,
                   last_auto_save, auto_save_toggle, taken, session>>

Next ==
    \/ Tick
    \/ Within /\ \E input \in CreateInputs : Create(input, {})
    \/ Within /\ \E p \in usedNames : Open(p, {})
    \/ Within /\ Save({})
    \/ Within /\ \E p \in usedNames, t \in Titles : SaveAs(p, t, {})
    \/ Within /\ \E p \in usedNames, trash \in BOOLEAN : Delete(p, trash)
    \/ Within /\ \E s \in Statuses : UpdateNovelStatus(s)

Spec == Init /\ [][Next]_vars

(* The store under an environment that makes at most MaxFaults operations  *)
(* fail: a write that raises part-way, a backup copy that raises, a backup  *)
(* cleanup that raises.                                                     *)

Injectable == IF nFaults < MaxFaults THEN Faults ELSE {}

NextFault ==
    \/ Tick
    \/ Within /\ \E t \in Titles : Create(FullInput(t), Injectable)
    \/ Within /\ \E p \in usedNames : Open(p, Injectable)
    \/ Within /\ Save(Injectable)
    \/ Within /\ \E p \in usedNames : CreateBackup(p, Injectable)

SpecFault == Init /\ [][NextFault]_vars

-----------------------------------------------------------------------------
(* One document and its backups over a longer time.  The run starts where  *)
(* the document has been created in second 0 and backed up once in each of *)
(* the seconds EarlyBackups, and goes on from there.                       *)

EarlyBackups == 1..7

DuneII == <<"D", "u", "n", "e", " ", "I", "I">>

Created == CHOOSE o \in create_new_novel([p \in {} |-> 0], 0, FullInput(DuneII), {}) : TRUE

RECURSIVE BackedUpUntil(_)
BackedUpUntil(t) ==
    IF t = 0 THEN Created.fs
    ELSE (CHOOSE b \in create_backup(BackedUpUntil(t - 1), t, Created.path, {}) : TRUE).fs

InitBackup ==
    /\ clock = Cardinality(EarlyBackups)
    /\ fs = BackedUpUntil(Cardinality(EarlyBackups))
    /\ current_file_path = NoPath
    /\ novel_data = EmptyDict
    /\ unsaved_changes = FALSE
    /\ ret = NoReturn
    /\ prev = NoReturn
    /\ usedNames = {Created.path}
    /\ nBackups = 1 + Cardinality(EarlyBackups)
    /\ nFaults = 0
    /\ nOps = 0
    /\ pc = "idle"
    /\ sv = NoSave
    /\ last_auto_save = Unset
    /\ auto_save_toggle = TRUE
    /\ taken = NoneTaken
    /\ session = NoSession

TickLong ==
    /\ Idle
    /\ clock < MaxBackupClock
    /\ clock' = clock + 1
    /\ UNCHANGED <<fs, current_file_path, novel_data, unsaved_changes, ret, prev,
                   usedNames, nBackups, nFaults, nOps, pc, sv,
                   last_auto_save, auto_save_toggle, taken, session>>

NextBackup ==
    \/ TickLong
    \/ Within /\ \E p \in usedNames : Open(p, {})
    \/ Within /\ Save({})
    \/ Within /\ \E p \in usedNames : CreateBackup(p, {})

SpecBackup == InitBackup /\ [][NextBackup]_vars

-----------------------------------------------------------------------------
(* save_file step by step, for a process that can be interrupted between   *)
(* any two file operations.  sv holds the locals of the call: the path,    *)
(* the stamped dict, the text json.dump is writing, and what the target    *)
(* held when the call began.  save_file is entered from save_current_file  *)
(* and from open_novel (line 84).                                          *)

Enter(caller, filepath, doc) ==
    /\ sv' = [caller |-> caller, path |-> filepath, doc |-> doc, text |-> json_dump(doc),
              existed |-> filepath \in DOMAIN fs,
              before |-> IF filepath \in DOMAIN fs THEN fs[filepath].text ELSE <<>>]
    /\ pc' = "open_temp"

\* save_current_file calls save_file: lines 97-100 stamp the caller's dict
SaveBegin ==
    /\ Idle
    /\ nOps' = nOps + 1
    /\ current_file_path # NoPath /\ novel_data # EmptyDict
    /\ VersionOf(novel_data) < MaxVersion
    /\ novel_data' = StampSave(novel_data, clock)
    /\ Enter("save", current_file_path, novel_data')
    /\ UNCHANGED <<clock, fs, current_file_path, unsaved_changes, ret, prev,
                   usedNames, nBackups, nFaults,
                   last_auto_save, auto_save_toggle, taken, session>>

\* open_novel, lines 75-84: load, stamp last_opened, call save_file
OpenBegin(filepath) ==
    /\ Idle
    /\ nOps' = nOps + 1
    /\ filepath \in DOMAIN fs /\ json_valid(fs[filepath].text)
    /\ LET loaded == json_load(fs[filepath].text)
       IN  /\ "metadata" \in DOMAIN loaded
           /\ VersionOf(loaded) < MaxVersion
           /\ Enter("open", filepath,
                    StampSave(SetKey(loaded, "metadata",
                                     SetKey(loaded["metadata"], "last_opened", clock)),
                              clock))
    /\ UNCHANGED <<clock, fs, current_file_path, novel_data, unsaved_changes, ret, prev,
                   usedNames, nBackups, nFaults,
                   last_auto_save, auto_save_toggle, taken, session>>

\* line 104: open(temp_file, 'w') creates the file, or empties it
SaveOpenTemp ==
    /\ pc = "open_temp"
    /\ fs' = Put(fs, TempPath(sv.path), File(<<>>, clock))
    /\ pc' = "dump"
    /\ UNCHANGED <<clock, current_file_path, novel_data, unsaved_changes, ret, prev,
                   usedNames, nBackups, nFaults, nOps, sv,
                   last_auto_save, auto_save_toggle, taken, session>>

\* line 105: json.dump writes the text piece by piece
SaveDump ==
    /\ pc = "dump"
    /\ LET temp_file == TempPath(sv.path)
           n == Len(fs[temp_file].text)
       IN  /\ n < Len(sv.text)
           /\ fs' = Put(fs, temp_file, File(Append(fs[temp_file].text, sv.text[n + 1]), clock))
    /\ UNCHANGED <<clock, current_file_path, novel_data, unsaved_changes, ret, prev,
                   usedNames, nBackups, nFaults, nOps, pc, sv,
                   last_auto_save, auto_save_toggle, taken, session>>

\* line 108: shutil.move(temp_file, filepath), a rename within one directory
SaveMove ==
    /\ pc = "dump"
    /\ LET temp_file == TempPath(sv.path)
       IN  /\ Len(fs[temp_file].text) = Len(sv.text)
           /\ fs' = Put(Remove(fs, temp_file), sv.path, fs[temp_file])
    /\ pc' = "backup"
    /\ UNCHANGED <<clock, current_file_path, novel_data, unsaved_changes, ret, prev,
                   usedNames, nBackups, nFaults, nOps, sv,
                   last_auto_save, auto_save_toggle, taken, session>>

\* lines 111-114: the backup, then the return to the caller
SaveReturn ==
    /\ pc = "backup"
    /\ \E b \in create_backup(fs, clock, sv.path, {}) :
          LET o == Outcome(TRUE, <<"File saved successfully">>, sv.path, sv.doc,
                           b.fs, b.backup, b.fault)
          IN  /\ fs' = b.fs
              /\ nBackups' = Count(b)
              /\ ret' = Returned(sv.caller, o, EmptyDict)
              /\ prev' = ret
    /\ IF sv.caller = "open"
       THEN /\ current_file_path' = sv.path
            /\ novel_data' = sv.doc
       ELSE UNCHANGED <<current_file_path, novel_data>>
    /\ unsaved_changes' = FALSE
    /\ pc' = "idle"
    /\ UNCHANGED <<clock, usedNames, nFaults, nOps, sv,
                   last_auto_save, auto_save_toggle, taken, session>>

\* the process is killed inside save_file; the session is gone, the disk stays
Interrupt ==
    /\ pc # "idle"
    /\ pc' = "idle"
    /\ current_file_path' = NoPath
    /\ novel_data' = EmptyDict
    /\ unsaved_changes' = FALSE
    /\ ret' = [NoReturn EXCEPT !.op = "interrupted", !.path = sv.path]
    /\ prev' = ret
    /\ UNCHANGED <<clock, fs, usedNames, nBackups, nFaults, nOps, sv,
                   last_auto_save, auto_save_toggle, taken, session>>

NextCrash ==
    \/ Tick
    \/ Within /\ \E t \in Titles : Create(FullInput(t), {})
    \/ Within /\ \E p \in usedNames : OpenBegin(p)
    \/ Within /\ SaveBegin
    \/ SaveOpenTemp
    \/ SaveDump
    \/ SaveMove
    \/ SaveReturn
    \/ Interrupt

SpecCrash == Init /\ [][NextCrash]_vars

-----------------------------------------------------------------------------
(* The store with its backups restored and its auto_save called: one        *)
(* document, created, opened, edited, saved, backed up and restored.        *)

\* the names file_manager.py binds at module level (lines 2-8, 10); a
\* function that evaluates any other global name raises NameError there
file_manager_globals ==
    {"json", "os", "shutil", "datetime", "Path", "hashlib",
     "Dict", "List", "Optional", "Tuple", "FileManager"}

\* FileManager.current_file: None after construction (line 13), the opened
\* path after a successful open_novel (line 86); the session's path is set
\* by the same open (ui_file_operations.py line 235)
current_file == current_file_path

(* FileManager.auto_save: the outcomes of the call, and whether an         *)
(* exception left it (the function has no try).  `a and b` evaluates b     *)
(* only when a is true.                                                     *)
auto_save(f, now, file, input, faults) ==
    IF file = NoPath
    THEN {[o |-> Outcome(FALSE, <<>>, NoPath, input, f, NoPath, "none"), raised |-> FALSE]}
    ELSE IF "st" \notin file_manager_globals
    THEN {[o |-> Outcome(FALSE, <<"NameError", "st">>, NoPath, input, f, NoPath, "none"),
           raised |-> TRUE]}
    ELSE {[o |-> s, raised |-> FALSE] : s \in save_file(f, now, file, input, TRUE, faults)}

AutoSave ==
    /\ Idle
    /\ nOps' = nOps + 1
    /\ VersionOf(novel_data) < MaxVersion
    /\ \E a \in auto_save(fs, clock, current_file, novel_data, {}) :
          /\ fs' = a.o.fs
          /\ ret' = [Returned("auto_save", a.o, novel_data) EXCEPT !.raised = a.raised]
          /\ prev' = ret
          /\ novel_data' = a.o.doc
          /\ nBackups' = Count(a.o)
          /\ unsaved_changes' = IF a.o.ok THEN FALSE ELSE unsaved_changes
    /\ UNCHANGED <<clock, current_file_path, usedNames, nFaults, pc, sv,
                   last_auto_save, auto_save_toggle, taken, session>>

(* a caller restores a document from one of its backups *)
RestoreBackup(backup_file, target_file) ==
    /\ Idle
    /\ nOps' = nOps + 1
    /\ LET o == restore_backup(fs, clock, backup_file, target_file)
       IN  /\ fs' = o.fs
           /\ ret' = Returned("restore", o, EmptyDict)
           /\ prev' = ret
    /\ UNCHANGED <<clock, current_file_path, novel_data, unsaved_changes,
                   usedNames, nBackups, nFaults, pc, sv,
                   last_auto_save, auto_save_toggle, taken, session>>

NextSession ==
    \/ Tick
    \/ Within /\ Create(FullInput(DuneII), {})
    \/ Within /\ \E p \in usedNames : Open(p, {})
    \/ Within /\ Save({})
    \/ Within /\ \E s \in Statuses : UpdateNovelStatus(s)
    \/ Within /\ \E p \in usedNames : CreateBackup(p, {})
    \/ Within /\ \E p \in usedNames : \E b \in Dir(fs, "backups") : RestoreBackup(b, p)
    \/ Within /\ AutoSave

SpecSession == Init /\ [][NextSession]_vars

-----------------------------------------------------------------------------
(* The characters of the open document and their relationships             *)
(* (character_manager.py).  A character is its name and its relationship   *)
(* list; the other fields of the form play no part in the lookups.         *)

Names == {"A", "B"}
RelTypes == {"Friends", "Rivals"}
Strengths == {5}

\* the names character_manager.py binds at module level (lines 2-4, 6);
\* a function that evaluates any other global name raises NameError there
character_manager_globals == {"st", "Dict", "List", "json", "CharacterManager"}

Characters(d) == IF "characters" \in DOMAIN d THEN d["characters"] ELSE <<>>

\* next((i for i, c in enumerate(characters) if c['name'] == name), -1),
\* counted from 1, with 0 for "not found"
IndexOf(characters, name) ==
    IF \E i \in 1..Len(characters) : characters[i].name = name
    THEN Min({i \in 1..Len(characters) : characters[i].name = name})
    ELSE 0

RelData(with, rel_type, strength, now) ==
    [with |-> with, type |-> rel_type, strength |-> strength,
     description |-> "", updated |-> now]

(* CharacterManager.set_relationship: the list afterwards and how the call  *)
(* ended.  Line 401 evaluates datetime.now() while building rel_data,       *)
(* before any list is touched.                                              *)
set_relationship(characters, char1_name, char2_name, rel_type, strength, now) ==
    LET char1_idx == IndexOf(characters, char1_name)
        char2_idx == IndexOf(characters, char2_name)
    IN  IF char1_idx = 0 \/ char2_idx = 0
        THEN [characters |-> characters, ok |-> FALSE, msg |-> <<"Character not found!">>]
        ELSE IF "datetime" \notin character_manager_globals
        THEN [characters |-> characters, ok |-> FALSE, msg |-> <<"NameError", "datetime">>]
        ELSE
        LET first == [characters EXCEPT ![char1_idx].relationships =
                         Append(SelectSeq(@, LAMBDA r : r.with # char2_name),
                                RelData(char2_name, rel_type, strength, now))]
        IN  [characters |->
                [first EXCEPT ![char2_idx].relationships =
                    Append(SelectSeq(@, LAMBDA r : r.with # char1_name),
                           RelData(char1_name, rel_type, strength, now))],
             ok |-> TRUE, msg |-> <<"Relationship set">>]

(* CharacterManager.clear_relationship *)
clear_relationship(characters, char1_name, char2_name) ==
    [i \in 1..Len(characters) |->
        IF characters[i].name \in {char1_name, char2_name}
        THEN [characters[i] EXCEPT !.relationships =
                 SelectSeq(@, LAMBDA r : r.with \notin {char1_name, char2_name})]
        ELSE characters[i]]

\* the relationship lists a stored character can have: none, or one entry
\* with another name
PriorRelationships(name) ==
    {<<>>} \cup {<<RelData(n, t, k, 0)>> : n \in Names \ {name}, t \in RelTypes, k \in Strengths}

CharacterLists ==
    UNION {{characters \in [1..n -> [name : Names,
                                      relationships : UNION {PriorRelationships(m) : m \in Names}]] :
               \A i \in 1..n :
                   characters[i].relationships \in PriorRelationships(characters[i].name)}
           : n \in 2..MaxCharacters}

\* a document stored with the given characters, and the session that opened it
CreatedWith(characters) ==
    CHOOSE o \in create_new_novel([p \in {} |-> 0], 0,
                                  SetKey(FullInput(DuneII), "characters", characters), {}) : TRUE

OpenedWith(characters) ==
    CHOOSE o \in open_novel(CreatedWith(characters).fs, 0, CreatedWith(characters).path, {}) : TRUE

InitRel ==
    /\ clock = 0
    /\ \E characters \in CharacterLists :
          /\ fs = OpenedWith(characters).fs
          /\ novel_data = OpenedWith(characters).doc
    /\ current_file_path = Created.path
    /\ unsaved_changes = FALSE
    /\ ret = NoReturn
    /\ prev = NoReturn
    /\ usedNames = {Created.path}
    /\ nBackups = 2
    /\ nFaults = 0
    /\ nOps = 0
    /\ pc = "idle"
    /\ sv = NoSave
    /\ last_auto_save = Unset
    /\ auto_save_toggle = TRUE
    /\ taken = NoneTaken
    /\ session = NoSession

\* render_relationships, lines 347-367: two names picked from the
\* characters, the second among the names that differ from the first
SetRelationship(char1, char2, rel_type, strength) ==
    LET r == set_relationship(Characters(novel_data), char1, char2, rel_type, strength, clock)
    IN  /\ Idle
        /\ nOps' = nOps + 1
        /\ novel_data' = IF r.ok THEN SetKey(novel_data, "characters", r.characters)
                         ELSE novel_data
        /\ unsaved_changes' = IF r.ok THEN TRUE ELSE unsaved_changes
        /\ ret' = [NoReturn EXCEPT !.op = "set_relationship", !.ok = r.ok, !.msg = r.msg,
                                   !.input = [char1 |-> char1, char2 |-> char2,
                                              type |-> rel_type, strength |-> strength]]
        /\ prev' = ret
        /\ UNCHANGED <<clock, fs, current_file_path, usedNames, nBackups, nFaults, pc, sv,
                       last_auto_save, auto_save_toggle, taken, session>>

\* render_relationships, lines 369-370
ClearRelationship(char1, char2) ==
    /\ Idle
    /\ nOps' = nOps + 1
    /\ novel_data' = SetKey(novel_data, "characters",
                            clear_relationship(Characters(novel_data), char1, char2))
    /\ unsaved_changes' = TRUE
    /\ ret' = [NoReturn EXCEPT !.op = "clear_relationship", !.ok = TRUE,
                               !.input = [char1 |-> char1, char2 |-> char2]]
    /\ prev' = ret
    /\ UNCHANGED <<clock, fs, current_file_path, usedNames, nBackups, nFaults, pc, sv,
                   last_auto_save, auto_save_toggle, taken, session>>

NamesOf(characters) == {characters[i].name : i \in 1..Len(characters)}

MoreCharacterOps == nOps < MaxCharacterOps

NextRel ==
    \/ MoreCharacterOps
          /\ \E char1 \in NamesOf(Characters(novel_data)) :
                \E char2 \in NamesOf(Characters(novel_data)) \ {char1} :
                   \E t \in RelTypes, k \in Strengths : SetRelationship(char1, char2, t, k)
    \/ MoreCharacterOps
          /\ \E char1 \in NamesOf(Characters(novel_data)) :
                \E char2 \in NamesOf(Characters(novel_data)) \ {char1} :
                   ClearRelationship(char1, char2)

SpecRel == InitRel /\ [][NextRel]_vars

-----------------------------------------------------------------------------
(* FileManager.validate_file_integrity.  A message is the pieces of its     *)
(* f-string; a chapter is named in it by enumerate's index plus one, which  *)
(* is its position in the list counted from 1.                              *)

Get(d, k, default) == IF k \in DOMAIN d THEN d[k] ELSE default

Whitespace == {" "}

\* len(content.split()): the number of maximal runs of non-whitespace
WordCount(content) ==
    Cardinality({i \in 1..Len(content) :
                    /\ content[i] \notin Whitespace
                    /\ (i = 1 \/ content[i - 1] \in Whitespace)})

RECURSIVE Sum(_, _)
Sum(values, n) == IF n = 0 THEN 0 ELSE values[n] + Sum(values, n - 1)

\* the messages "<prefix><field>" for the fields of required absent from d
MissingMessages(prefix, required, d) ==
    LET missing == SelectSeq(required, LAMBDA field : field \notin DOMAIN d)
    IN  [i \in 1..Len(missing) |-> <<prefix, missing[i]>>]

\* lines 327-331, for the chapters from position i on
RECURSIVE ChapterWarnings(_, _)
ChapterWarnings(chapters, i) ==
    IF i > Len(chapters) THEN <<>>
    ELSE (IF "title" \notin DOMAIN chapters[i]
             THEN << <<"Chapter ", i, " missing title">> >> ELSE <<>>)
         \o (IF "content" \notin DOMAIN chapters[i]
             THEN << <<"Chapter ", i, " missing content">> >> ELSE <<>>)
         \o ChapterWarnings(chapters, i + 1)

\* mutant: the statistics are computed for valid documents only
validate_file_integrity_stats_if_valid(f, filepath) ==
    IF filepath \notin DOMAIN f
    THEN [valid |-> FALSE, errors |-> << <<"Validation error: ", "No such file">> >>,
          warnings |-> <<>>, statistics |-> EmptyDict]
    ELSE IF ~json_valid(f[filepath].text)
    THEN [valid |-> FALSE, errors |-> << <<"Invalid JSON format">> >>,
          warnings |-> <<>>, statistics |-> EmptyDict]
    ELSE
    LET data == json_load(f[filepath].text)
        errors == MissingMessages("Missing required field: ",
                                  <<"title", "author", "metadata">>, data)
        meta_warnings ==
            IF "metadata" \in DOMAIN data
            THEN MissingMessages("Missing metadata: ",
                                 <<"created", "modified", "version">>, data["metadata"])
            ELSE <<>>
        chapters == Get(data, "chapters", <<>>)
        words == [i \in 1..Len(chapters) |-> WordCount(Get(chapters[i], "content", <<>>))]
        chars == [i \in 1..Len(chapters) |-> Len(Get(chapters[i], "content", <<>>))]
    IN  [valid |-> errors = <<>>,
         errors |-> errors,
         warnings |-> meta_warnings \o ChapterWarnings(chapters, 1),
         statistics |-> IF errors # <<>> THEN EmptyDict ELSE
                        [total_chapters |-> Len(chapters),
                         total_characters |-> Len(Get(data, "characters", <<>>)),
                         total_words |-> Sum(words, Len(words)),
                         total_chars |-> Sum(chars, Len(chars))]]

validate_file_integrity(f, filepath) ==
    IF filepath \notin DOMAIN f
    THEN [valid |-> FALSE, errors |-> << <<"Validation error: ", "No such file">> >>,
          warnings |-> <<>>, statistics |-> EmptyDict]
    ELSE IF ~json_valid(f[filepath].text)
    THEN [valid |-> FALSE, errors |-> << <<"Invalid JSON format">> >>,
          warnings |-> <<>>, statistics |-> EmptyDict]
    ELSE
    LET data == json_load(f[filepath].text)
        errors == MissingMessages("Missing required field: ",
                                  <<"title", "author", "metadata">>, data)
        meta_warnings ==
            IF "metadata" \in DOMAIN data
            THEN MissingMessages("Missing metadata: ",
                                 <<"created", "modified", "version">>, data["metadata"])
            ELSE <<>>
        chapters == Get(data, "chapters", <<>>)
        words == [i \in 1..Len(chapters) |-> WordCount(Get(chapters[i], "content", <<>>))]
        chars == [i \in 1..Len(chapters) |-> Len(Get(chapters[i], "content", <<>>))]
    IN  [valid |-> errors = <<>>,
         errors |-> errors,
         warnings |-> meta_warnings \o ChapterWarnings(chapters, 1),
         statistics |-> [total_chapters |-> Len(chapters),
                         total_characters |-> Len(Get(data, "characters", <<>>)),
                         total_words |-> Sum(words, Len(words)),
                         total_chars |-> Sum(chars, Len(chars))]]

\* the chapters of the validated documents: numbered apart, in any order,
\* each with or without its content
Contents == {<<"a", " ", "b">>}

Chapter(number, content) == [number |-> number, title |-> "T", content |-> content]

ChapterLists ==
    UNION {{chapters \in [1..n -> {Chapter(k, c) : k \in 1..MaxChapterNumber, c \in Contents}
                                    \cup {Restrict(Chapter(k, <<>>), {"number", "title"})
                                             : k \in 1..MaxChapterNumber}] :
               \A i, j \in 1..n : i # j => chapters[i]["number"] # chapters[j]["number"]}
           : n \in 1..MaxChapters}

\* the root of a validated document: whole, or without one of the fields
\* the validation requires; and its text: whole, or cut short
RootDefects == {{}, {"title"}, {"author"}, {"metadata"}}

ValidatedTexts(chapters) ==
    {json_dump(Restrict(SetKey(Created.doc, "chapters", chapters),
                        DOMAIN Created.doc \ missing)) : missing \in RootDefects}
    \cup {Truncated(json_dump(SetKey(Created.doc, "chapters", chapters)), 3)}

InitValidate ==
    /\ clock = 0
    /\ \E chapters \in ChapterLists :
          \E text \in ValidatedTexts(chapters) :
             fs = Put(Created.fs, Created.path, File(text, 0))
    /\ current_file_path = NoPath
    /\ novel_data = EmptyDict
    /\ unsaved_changes = FALSE
    /\ ret = NoReturn
    /\ prev = NoReturn
    /\ usedNames = {Created.path}
    /\ nBackups = 1
    /\ nFaults = 0
    /\ nOps = 0
    /\ pc = "idle"
    /\ sv = NoSave
    /\ last_auto_save = Unset
    /\ auto_save_toggle = TRUE
    /\ taken = NoneTaken
    /\ session = NoSession

Validate(filepath) ==
    LET validation_result == validate_file_integrity(fs, filepath)
    IN  /\ Idle
        /\ nOps' = nOps + 1
        /\ ret' = SetKey([NoReturn EXCEPT !.op = "validate_file_integrity",
                                          !.ok = validation_result.valid,
                                          !.path = filepath],
                         "result", validation_result)
        /\ prev' = ret
        /\ UNCHANGED <<clock, fs, current_file_path, novel_data, unsaved_changes,
                       usedNames, nBackups, nFaults, pc, sv,
                       last_auto_save, auto_save_toggle, taken, session>>

NextValidate == Within /\ \E filepath \in Dir(fs, "novels") : Validate(filepath)

SpecValidate == InitValidate /\ [][NextValidate]_vars

-----------------------------------------------------------------------------
(* Documents that have characters and chapters, copied under new titles.   *)
(* The run starts with one such document stored.                           *)

StoredCharacters ==
    {characters \in CharacterLists :
        /\ Len(characters) = 2
        /\ characters[1].name # characters[2].name
        /\ \A i \in 1..2 : characters[i].relationships = <<>>}
StoredChapters ==
    {chapters \in ChapterLists : Len(chapters) = 1 /\ "content" \in DOMAIN chapters[1]}

CreatedFrom(input) == CHOOSE o \in create_new_novel([p \in {} |-> 0], 0, input, {}) : TRUE

InitCopy ==
    /\ clock = 0
    /\ \E characters \in StoredCharacters, chapters \in StoredChapters :
          fs = CreatedFrom(SetKey(SetKey(FullInput(DuneII), "characters", characters),
                                  "chapters", chapters)).fs
    /\ current_file_path = NoPath
    /\ novel_data = EmptyDict
    /\ unsaved_changes = FALSE
    /\ ret = NoReturn
    /\ prev = NoReturn
    /\ usedNames = {Created.path}
    /\ nBackups = 1
    /\ nFaults = 0
    /\ nOps = 0
    /\ pc = "idle"
    /\ sv = NoSave
    /\ last_auto_save = Unset
    /\ auto_save_toggle = TRUE
    /\ taken = NoneTaken
    /\ session = NoSession

MoreCopies == nOps < MaxCopyOps

NextCopy ==
    \/ Tick
    \/ MoreCopies /\ \E p \in usedNames, t \in Titles : SaveAs(p, t, {})
    \/ MoreCopies /\ \E p \in usedNames : Open(p, {})

SpecCopy == InitCopy /\ [][NextCopy]_vars

-----------------------------------------------------------------------------
(* FileManager.get_file_list.  A summary carries the fields the listing   *)
(* reads from the document and the file's modification time; st_ctime and  *)
(* st_size are left out.  The result is one of the lists the sort can      *)
(* produce: files with equal keys come in the order of os.listdir, which   *)
(* is arbitrary.                                                            *)

Untitled == <<"U", "n", "t", "i", "t", "l", "e", "d">>

Summary(f, p) ==
    LET data == json_load(f[p].text)
    IN  [filename |-> Filename(p), filepath |-> p,
         title |-> Get(data, "title", Untitled),
         author |-> Get(data, "author", "Unknown"),
         genre |-> Get(data, "genre", <<>>),
         modified |-> f[p].mtime,
         metadata |-> Get(data, "metadata", EmptyDict)]

\* a.lower() <= b.lower() for strings
RECURSIVE LowerLeq(_, _)
LowerLeq(a, b) ==
    IF a = <<>> THEN TRUE
    ELSE IF b = <<>> THEN FALSE
    ELSE IF LowerOrd(Head(a)) # LowerOrd(Head(b)) THEN LowerOrd(Head(a)) < LowerOrd(Head(b))
    ELSE LowerLeq(Tail(a), Tail(b))

\* x may come before y in the list sorted by sort_by
MayPrecede(sort_by, x, y) ==
    CASE sort_by = "modified" -> x.modified >= y.modified
      [] sort_by = "title" -> LowerLeq(x.title, y.title)
      [] OTHER -> TRUE

Listings(S, sort_by) ==
    {files \in [1..Cardinality(S) -> S] :
        /\ \A i, j \in 1..Cardinality(S) : i # j => files[i] # files[j]
        /\ \A i, j \in 1..Cardinality(S) : i < j => MayPrecede(sort_by, files[i], files[j])}

get_file_list(f, sort_by) ==
    LET novels == Dir(f, "novels")
    IN  IF \E p \in novels : ~json_valid(f[p].text)
        THEN {<<>>}
        ELSE Listings({Summary(f, p) : p \in novels}, sort_by)

SortKeys == {"modified", "title"}

GetFileList(sort_by) ==
    /\ Idle
    /\ nOps' = nOps + 1
    /\ \E files \in get_file_list(fs, sort_by) :
          ret' = SetKey([NoReturn EXCEPT !.op = "get_file_list", !.ok = TRUE,
                                        !.input = [sort_by |-> sort_by]],
                        "result", files)
    /\ prev' = ret
    /\ UNCHANGED <<clock, fs, current_file_path, novel_data, unsaved_changes,
                   usedNames, nBackups, nFaults, pc, sv,
                   last_auto_save, auto_save_toggle, taken, session>>

NextList ==
    \/ Tick
    \/ Within /\ \E t \in Titles : Create(FullInput(t), Injectable)
    \/ Within /\ \E p \in usedNames : Open(p, Injectable)
    \/ Within /\ \E p \in usedNames : Delete(p, TRUE)
    \/ Within /\ \E sort_by \in SortKeys : GetFileList(sort_by)

SpecList == Init /\ [][NextList]_vars

-----------------------------------------------------------------------------
(* The auto-save check at the end of NovelCraftApp.run, lines 731-744.     *)
(* Streamlit runs the script once per refresh: after every user event, its *)
(* handler first, and whenever the page re-renders.                        *)

AutoSaveAfter == 30

\* the session after FileOperationsUI.save_current_file: nothing happens
\* without an open path and a non-empty dict
save_current_file(f, now, path, doc, unsaved) ==
    IF path = NoPath \/ doc = EmptyDict
    THEN {[fs |-> f, doc |-> doc, unsaved |-> unsaved, called |-> FALSE,
           o |-> Outcome(FALSE, <<>>, NoPath, doc, f, NoPath, "none")]}
    ELSE {[fs |-> o.fs, doc |-> o.doc, unsaved |-> IF o.ok THEN FALSE ELSE unsaved,
           called |-> TRUE, o |-> o] : o \in save_file(f, now, path, doc, TRUE, {})}

\* mutant: the time of the auto-save is not recorded
auto_save_timer_unrecorded(f, now, toggle, path, doc, unsaved, last) ==
    IF toggle /\ path # NoPath /\ unsaved
    THEN LET last0 == IF last = Unset THEN now ELSE last
         IN  IF now - last0 > AutoSaveAfter
             THEN {[s EXCEPT !.called = TRUE] @@ [last |-> last0] :
                      s \in save_current_file(f, now, path, doc, unsaved)}
             ELSE {[fs |-> f, doc |-> doc, unsaved |-> unsaved, called |-> FALSE,
                    o |-> Outcome(FALSE, <<>>, NoPath, doc, f, NoPath, "none"),
                    last |-> last0]}
    ELSE {[fs |-> f, doc |-> doc, unsaved |-> unsaved, called |-> FALSE,
           o |-> Outcome(FALSE, <<>>, NoPath, doc, f, NoPath, "none"), last |-> last]}

\* mutant: every check records its time, due or not
auto_save_timer_restarting(f, now, toggle, path, doc, unsaved, last) ==
    IF toggle /\ path # NoPath /\ unsaved
    THEN LET last0 == IF last = Unset THEN now ELSE last
         IN  IF now - last0 > AutoSaveAfter /\ last = Unset
             THEN {[s EXCEPT !.called = TRUE] @@ [last |-> now] :
                      s \in save_current_file(f, now, path, doc, unsaved)}
             ELSE {[fs |-> f, doc |-> doc, unsaved |-> unsaved, called |-> FALSE,
                    o |-> Outcome(FALSE, <<>>, NoPath, doc, f, NoPath, "none"),
                    last |-> now]}
    ELSE {[fs |-> f, doc |-> doc, unsaved |-> unsaved, called |-> FALSE,
           o |-> Outcome(FALSE, <<>>, NoPath, doc, f, NoPath, "none"), last |-> last]}

\* lines 731-744: what the check leaves, and whether it called the save
auto_save_timer(f, now, toggle, path, doc, unsaved, last) ==
    IF toggle /\ path # NoPath /\ unsaved
    THEN LET last0 == IF last = Unset THEN now ELSE last
         IN  IF now - last0 > AutoSaveAfter
             THEN {[s EXCEPT !.called = TRUE] @@ [last |-> now] :
                      s \in save_current_file(f, now, path, doc, unsaved)}
             ELSE {[fs |-> f, doc |-> doc, unsaved |-> unsaved, called |-> FALSE,
                    o |-> Outcome(FALSE, <<>>, NoPath, doc, f, NoPath, "none"),
                    last |-> last0]}
    ELSE {[fs |-> f, doc |-> doc, unsaved |-> unsaved, called |-> FALSE,
           o |-> Outcome(FALSE, <<>>, NoPath, doc, f, NoPath, "none"), last |-> last]}

\* history: when the check last called the save, as far as r tells
LastTrigger(r) ==
    IF r.op # "run" THEN Unset
    ELSE IF r.auto_saved THEN r.at ELSE r.prev_trigger

\* one run of the script: the session as the event's handler left it, then
\* the auto-save check.  ret tells whether the check called the save, and
\* what the check saw: the flag and the recorded time before it ran.
Run(event, f, doc, unsaved) ==
    /\ Idle
    /\ nOps' = IF nOps < MaxAutoOps THEN nOps + 1 ELSE nOps
    /\ \E r \in auto_save_timer(f, clock, auto_save_toggle, current_file_path,
                                 doc, unsaved, last_auto_save) :
          /\ fs' = r.fs
          /\ novel_data' = r.doc
          /\ unsaved_changes' = r.unsaved
          /\ last_auto_save' = r.last
          /\ nBackups' = Count(r.o)
          /\ ret' = [op |-> "run", event |-> event, auto_saved |-> r.called, ok |-> r.o.ok,
                     at |-> clock, flagged |-> unsaved, since |-> last_auto_save,
                     enabled |-> auto_save_toggle /\ current_file_path # NoPath,
                     prev_trigger |-> LastTrigger(ret), raised |-> FALSE]
    /\ prev' = ret
    /\ UNCHANGED <<clock, current_file_path, usedNames, nFaults, pc, sv, auto_save_toggle, taken, session>>

\* the page re-renders, no event
Refresh == Run("refresh", fs, novel_data, unsaved_changes)

\* the status selectbox changes: update_novel_status, then the script runs
EditRun(status) ==
    /\ current_file_path # NoPath
    /\ Run("edit", fs, SetKey(novel_data, "status", status), TRUE)

\* the Save button: save_current_file in the sidebar, then the rest of the run
SaveRun ==
    /\ current_file_path # NoPath
    /\ VersionOf(novel_data) < MaxVersion
    /\ \E s \in save_current_file(fs, clock, current_file_path, novel_data, unsaved_changes) :
          Run("save", s.fs, s.doc, s.unsaved)

\* the Auto-save toggle in the header; the check of the same run reads it
ToggleRun ==
    /\ Idle
    /\ nOps' = nOps + 1
    /\ current_file_path # NoPath
    /\ auto_save_toggle' = ~auto_save_toggle
    /\ \E r \in auto_save_timer(fs, clock, auto_save_toggle', current_file_path,
                                 novel_data, unsaved_changes, last_auto_save) :
          /\ fs' = r.fs
          /\ novel_data' = r.doc
          /\ unsaved_changes' = r.unsaved
          /\ last_auto_save' = r.last
          /\ nBackups' = Count(r.o)
          /\ ret' = [op |-> "run", event |-> "toggle", auto_saved |-> r.called, ok |-> r.o.ok,
                     at |-> clock, flagged |-> unsaved_changes, since |-> last_auto_save,
                     enabled |-> auto_save_toggle', prev_trigger |-> LastTrigger(ret),
                     raised |-> FALSE]
    /\ prev' = ret
    /\ UNCHANGED <<clock, current_file_path, usedNames, nFaults, pc, sv, taken, session>>

PassSteps == {15, 16}

Pass(d) ==
    /\ Idle
    /\ clock + d <= MaxAutoClock
    /\ clock' = clock + d
    /\ UNCHANGED <<fs, current_file_path, novel_data, unsaved_changes, ret, prev,
                   usedNames, nBackups, nFaults, nOps, pc, sv,
                   last_auto_save, auto_save_toggle, taken, session>>

InitAuto ==
    /\ clock = 0
    /\ fs = OpenedWith(<<>>).fs
    /\ current_file_path = Created.path
    /\ novel_data = OpenedWith(<<>>).doc
    /\ unsaved_changes = FALSE
    /\ ret = NoReturn
    /\ prev = NoReturn
    /\ usedNames = {Created.path}
    /\ nBackups = 2
    /\ nFaults = 0
    /\ nOps = 0
    /\ pc = "idle"
    /\ sv = NoSave
    /\ last_auto_save = Unset
    /\ auto_save_toggle = TRUE
    /\ taken = NoneTaken
    /\ session = NoSession

MoreRuns == nOps < MaxAutoOps

NextAuto ==
    \/ \E d \in PassSteps : Pass(d)
    \/ MoreRuns /\ VersionOf(novel_data) < MaxVersion /\ Refresh
    \/ MoreRuns /\ VersionOf(novel_data) < MaxVersion /\ \E s \in Statuses : EditRun(s)
    \/ MoreRuns /\ SaveRun
    \/ MoreRuns /\ VersionOf(novel_data) < MaxVersion /\ ToggleRun

SpecAuto == InitAuto /\ [][NextAuto]_vars

(* The same session where the page keeps re-rendering and time keeps       *)
(* passing until the clock of the model ends: every re-render runs the     *)
(* script, and the user edits and toggles now and then.                    *)

TimePasses == \E d \in PassSteps : Pass(d)

NextAutoLive ==
    \/ TimePasses
    \/ Refresh
    \/ MoreRuns /\ \E s \in Statuses : EditRun(s)
    \/ MoreRuns /\ ToggleRun

SpecAutoLive ==
    InitAuto /\ [][NextAutoLive]_vars /\ WF_vars(TimePasses) /\ WF_vars(Refresh)

(* The same session with the delete confirmation of the open dialog: both *)
(* of its buttons call delete_file with move_to_trash true.                *)

\* show_delete_confirmation, lines 156-187
DeleteConfirmed(filepath) == Delete(filepath, TRUE)

NextGone ==
    \/ \E d \in PassSteps : Pass(d)
    \/ MoreRuns /\ VersionOf(novel_data) < MaxVersion /\ Refresh
    \/ MoreRuns /\ VersionOf(novel_data) < MaxVersion /\ \E s \in Statuses : EditRun(s)
    \/ MoreRuns /\ SaveRun
    \/ MoreRuns /\ \E p \in usedNames : DeleteConfirmed(p)

SpecGone == InitAuto /\ [][NextGone]_vars

-----------------------------------------------------------------------------
(* The chapter page (chapter_manager.py).  Every run of the script renders  *)
(* the four tabs in turn: the list, the writer with its editor, the outline *)
(* and the scene manager; a pressed button is handled where its widget is   *)
(* rendered.  A chapter is its number, title, content and time stamps, and  *)
(* the scenes list once the scene manager has shown it.                     *)

\* what chapter_manager.py binds at module level (lines 2-4)
chapter_manager_globals == {"st", "Dict", "List", "json"}

ChapterTitles == {"T", "U"}

Chapters(d) == Get(d, "chapters", <<>>)

ChapterNumbers(chapters) == {chapters[i]["number"] : i \in 1..Len(chapters)}

Max(S) == CHOOSE x \in S : \A y \in S : y <= x

\* next((i for i, c in enumerate(chapters) if c['number'] == n), -1);
\* positions count from 1 here, and 0 stands for the -1
ChapterIndex(chapters, n) ==
    IF n \in ChapterNumbers(chapters)
    THEN Min({i \in 1..Len(chapters) : chapters[i]["number"] = n})
    ELSE 0

\* list.sort(key=lambda x: x.get('number', 0)): stable, ascending
RECURSIVE Insert(_, _)
Insert(sorted, c) ==
    IF sorted = <<>> THEN <<c>>
    ELSE IF Get(sorted[Len(sorted)], "number", 0) <= Get(c, "number", 0)
         THEN Append(sorted, c)
         ELSE Append(Insert(SubSeq(sorted, 1, Len(sorted) - 1), c), sorted[Len(sorted)])

RECURSIVE SortedByNumber(_)
SortedByNumber(chapters) ==
    IF chapters = <<>> THEN <<>>
    ELSE Insert(SortedByNumber(SubSeq(chapters, 1, Len(chapters) - 1)),
                chapters[Len(chapters)])

\* render_chapter_list, lines 40-69: without a search text and with the
\* filter on "All", filtered_chapters is the document's own list, and the
\* sort of line 69 sorts that list in place
render_chapter_list(d, filtered) ==
    IF Chapters(d) = <<>> \/ filtered THEN d
    ELSE SetKey(d, "chapters", SortedByNumber(Chapters(d)))

\* mutant: the outline shows the chapters in the order of the list
render_outline_unsorted(d) == d

\* render_outline, lines 364-371
render_outline(d) ==
    IF Chapters(d) = <<>> THEN d
    ELSE SetKey(d, "chapters", SortedByNumber(Chapters(d)))

\* render_scene_manager, lines 427-455: the selected chapter gets a scenes
\* list when it has none
render_scene_manager(d, selected) ==
    LET chapters == Chapters(d)
        i == ChapterIndex(chapters, selected)
    IN  IF chapters = <<>> \/ i = 0 THEN d
        ELSE SetKey(d, "chapters",
                    [chapters EXCEPT ![i] = SetDefault(chapters[i], "scenes", <<>>)])

\* lines 474-486: Add Scene appends to the scenes list of the selected chapter
add_scene(d, selected, scene_title) ==
    LET shown == render_scene_manager(d, selected)
        chapters == Chapters(shown)
        i == ChapterIndex(chapters, selected)
        scenes == chapters[i]["scenes"]
    IN  SetKey(shown, "chapters",
               [chapters EXCEPT ![i] =
                   SetKey(chapters[i], "scenes",
                          Append(scenes, [number |-> Len(scenes) + 1, title |-> scene_title]))])

\* render_chapter_writer, lines 107-113
next_chapter(d) ==
    IF Chapters(d) # <<>> THEN Max(ChapterNumbers(Chapters(d))) + 1 ELSE 1

(* ChapterManager.save_chapter: the document afterwards, whether the call   *)
(* raised, and whether it set unsaved_changes.  The dict of lines 329-344   *)
(* is built before the list is touched, and its 'modified' entry evaluates  *)
(* datetime.now().                                                          *)
save_chapter(d, now, chapter_num, title, content) ==
    LET d1 == SetDefault(d, "chapters", <<>>)
        chapters == d1["chapters"]
        chapter_index == ChapterIndex(chapters, chapter_num)
    IN  IF "datetime" \notin chapter_manager_globals
        THEN [doc |-> d1, raised |-> TRUE, flagged |-> FALSE]
        ELSE LET chapter_data ==
                     [number |-> chapter_num, title |-> title, content |-> content,
                      created |-> IF chapter_index = 0 THEN now
                                  ELSE Get(chapters[chapter_index], "created", Unset),
                      modified |-> now]
                 updated == IF chapter_index = 0 THEN Append(chapters, chapter_data)
                            ELSE [chapters EXCEPT ![chapter_index] = chapter_data]
                 total_words ==
                     Sum([i \in 1..Len(updated) |-> WordCount(Get(updated[i], "content", <<>>))],
                         Len(updated))
                 d2 == SetKey(d1, "chapters", updated)
             IN  [doc |-> IF "metadata" \in DOMAIN d2
                          THEN SetKey(d2, "metadata",
                                      SetKey(d2["metadata"], "word_count", total_words))
                          ELSE d2,
                  raised |-> FALSE, flagged |-> TRUE]

\* render_chapter_writer line 136 and render_chapter_editor lines 142-149:
\* the editor and its buttons are on the page
EditorShown(d, sess) ==
    IF sess.editing_chapter # Unset
    THEN sess.editing_chapter \in ChapterNumbers(Chapters(d))
    ELSE sess.writing_new_chapter

\* lines 142-151: the number the editor works on
EditorNumber(sess) ==
    IF sess.editing_chapter # Unset THEN sess.editing_chapter
    ELSE sess.current_chapter_number

\* lines 277-280, 311-314
Closed(sess) == [sess EXCEPT !.writing_new_chapter = FALSE, !.editing_chapter = Unset]

\* lines 300-304
Continued(sess) ==
    [Closed(sess) EXCEPT !.current_chapter_number =
        IF sess.writing_new_chapter THEN @ + 1 ELSE @]

\* a run that reaches its end has rendered the list, the outline and the
\* scene manager
Rendered(d, filtered, selected) ==
    render_scene_manager(render_outline(render_chapter_list(d, filtered)), selected)

WrittenChapter(number) ==
    [number |-> number, title |-> "T", content |-> <<"a", " ", "b">>,
     created |-> 0, modified |-> 0]

\* the chapters of a stored document: distinct numbers, in the order the
\* file lists them
WrittenChapterLists ==
    UNION {{chapters \in [1..n -> {WrittenChapter(k) : k \in 1..MaxChapterNumber}] :
               \A i, j \in 1..n : i # j => chapters[i]["number"] # chapters[j]["number"]}
           : n \in 0..MaxChapters}

OpenedFrom(input) ==
    CHOOSE o \in open_novel(CreatedFrom(input).fs, 0, CreatedFrom(input).path, {}) : TRUE

InitChapter ==
    /\ clock = 0
    /\ \E chapters \in WrittenChapterLists :
          /\ fs = OpenedFrom(SetKey(FullInput(DuneII), "chapters", chapters)).fs
          /\ novel_data = OpenedFrom(SetKey(FullInput(DuneII), "chapters", chapters)).doc
    /\ current_file_path = Created.path
    /\ unsaved_changes = FALSE
    /\ ret = NoReturn
    /\ prev = NoReturn
    /\ usedNames = {Created.path}
    /\ nBackups = 2
    /\ nFaults = 0
    /\ nOps = 0
    /\ pc = "idle"
    /\ sv = NoSave
    /\ last_auto_save = Unset
    /\ auto_save_toggle = TRUE
    /\ taken = NoneTaken
    /\ session = NoSession

\* the chapter page was on the screen when the run began
ChapterPageShown == ret.op = "chapters"

\* one run of render_chapter_manager: what it leaves and what it reports.
\* d is the document and sess the session when the run ends; a run that
\* ends in st.rerun() is followed by a run that renders the whole page.
ChapterRun(button, number, new, d, sess, flagged, raised, filtered, selected) ==
    /\ Idle
    /\ current_file_path # NoPath
    /\ nOps' = nOps + 1
    /\ novel_data' = IF raised THEN d ELSE Rendered(d, filtered, selected)
    /\ session' = sess
    /\ unsaved_changes' = (unsaved_changes \/ flagged)
    /\ ret' = [op |-> "chapters", button |-> button, number |-> number, new |-> new,
               before |-> Chapters(novel_data), raised |-> raised, ok |-> ~raised,
               was_flagged |-> unsaved_changes]
    /\ prev' = ret
    /\ UNCHANGED <<clock, fs, current_file_path, usedNames, nBackups, nFaults, pc, sv,
                   last_auto_save, auto_save_toggle, taken>>

Selections(d) == IF Chapters(d) = <<>> THEN {Unset} ELSE ChapterNumbers(Chapters(d))

\* the page is rendered, no button pressed
ViewChapters(filtered, selected) ==
    ChapterRun("none", Unset, FALSE, novel_data, session, FALSE, FALSE, filtered, selected)

\* lines 118-120
NewChapter(filtered, selected) ==
    /\ ChapterPageShown
    /\ LET d == render_chapter_list(novel_data, filtered)
       IN  ChapterRun("new", next_chapter(d), TRUE, d,
                      [session EXCEPT !.writing_new_chapter = TRUE,
                                      !.current_chapter_number = next_chapter(d)],
                      FALSE, FALSE, filtered, selected)

\* lines 90-91 and 130-133
EditChapter(n, filtered, selected) ==
    /\ ChapterPageShown
    /\ n \in ChapterNumbers(Chapters(novel_data))
    /\ ChapterRun("edit", n, FALSE, novel_data, [session EXCEPT !.editing_chapter = n],
                  FALSE, FALSE, filtered, selected)

\* lines 263-283 and 286-307
SaveChapter(button, title, content, filtered, selected) ==
    /\ ChapterPageShown
    /\ EditorShown(novel_data, session)
    /\ LET d == render_chapter_list(novel_data, filtered)
           r == save_chapter(d, clock, EditorNumber(session), title, content)
       IN  ChapterRun(button, EditorNumber(session), session.editing_chapter = Unset, r.doc,
                      IF r.raised THEN session
                      ELSE IF button = "continue" THEN Continued(session) ELSE Closed(session),
                      r.flagged, r.raised, filtered, selected)

\* lines 310-315
Cancel(filtered, selected) ==
    /\ ChapterPageShown
    /\ EditorShown(novel_data, session)
    /\ ChapterRun("cancel", EditorNumber(session), session.editing_chapter = Unset,
                  novel_data, Closed(session), FALSE, FALSE, filtered, selected)

\* lines 474-489
AddScene(scene_title, filtered, selected) ==
    /\ ChapterPageShown
    /\ selected \in ChapterNumbers(Chapters(novel_data))
    /\ ChapterRun("add_scene", selected, FALSE,
                  add_scene(render_outline(render_chapter_list(novel_data, filtered)),
                            selected, scene_title),
                  session, TRUE, FALSE, filtered, selected)

MoreChapterRuns == nOps < MaxChapterRuns

Filters == BOOLEAN

NextChapter ==
    \/ MoreChapterRuns
          /\ \E filtered \in Filters, selected \in Selections(novel_data) :
                ViewChapters(filtered, selected)
    \/ MoreChapterRuns /\ next_chapter(novel_data) <= MaxChapterNumber + 1
          /\ \E filtered \in Filters, selected \in Selections(novel_data) :
                NewChapter(filtered, selected)
    \/ MoreChapterRuns
          /\ \E filtered \in Filters, selected \in Selections(novel_data) :
                \E n \in 1..MaxChapterNumber : EditChapter(n, filtered, selected)
    \/ MoreChapterRuns
          /\ \E filtered \in Filters, selected \in Selections(novel_data) :
                \E button \in {"save", "continue"}, title \in ChapterTitles,
                   content \in Contents :
                   SaveChapter(button, title, content, filtered, selected)
    \/ MoreChapterRuns
          /\ \E filtered \in Filters, selected \in Selections(novel_data) :
                Cancel(filtered, selected)
    \/ MoreChapterRuns
          /\ \E filtered \in Filters, selected \in Selections(novel_data) :
                \E scene_title \in ChapterTitles : AddScene(scene_title, filtered, selected)

SpecChapter == InitChapter /\ [][NextChapter]_vars

-----------------------------------------------------------------------------
(* The character list (character_manager.py, render_character_list and     *)
(* render_character_card), with the add form and the relationship buttons  *)
(* of the same page.  A character is its name, role, appearances and       *)
(* relationship list.                                                      *)

CastNames == Names \cup {"C"}
Roles == {"Minor", "Protagonist"}
RoleFilters == {"All"} \cup Roles
Searches == {"", "b"}
SortOrders == {"Name", "Role", "Importance", "Recently Added"}

\* search.lower() in c.get('name', '').lower(), for texts and names of one
\* letter; the empty text is not applied (line 94)
Matches(search, name) == search = "" \/ LowerOrd(search) = LowerOrd(name)

\* the key of the chosen sort (lines 103-110), as a number; no character
\* carries importance or added_date, so these two keys are equal for all
SortKey(c, sort_by) ==
    CASE sort_by = "Name" -> LowerOrd(c.name)
      [] sort_by = "Role" -> (IF c.role = "Minor" THEN 1 ELSE 2)
      [] OTHER -> 0

\* list.sort: stable, so characters with equal keys keep their order
RECURSIVE InsertByKey(_, _, _)
InsertByKey(sorted, c, sort_by) ==
    IF sorted = <<>> THEN <<c>>
    ELSE IF SortKey(sorted[Len(sorted)], sort_by) <= SortKey(c, sort_by)
         THEN Append(sorted, c)
         ELSE Append(InsertByKey(SubSeq(sorted, 1, Len(sorted) - 1), c, sort_by),
                     sorted[Len(sorted)])

RECURSIVE SortedByKey(_, _)
SortedByKey(characters, sort_by) ==
    IF characters = <<>> THEN <<>>
    ELSE InsertByKey(SortedByKey(SubSeq(characters, 1, Len(characters) - 1), sort_by),
                     characters[Len(characters)], sort_by)

\* lines 92-100: a search text or a role filter builds a new list;
\* without them filtered_chars is the document's own list
Filtered(characters, search, filter_role) ==
    SelectSeq(characters,
              LAMBDA c : Matches(search, c.name) /\ (filter_role = "All" \/ c.role = filter_role))

\* render_character_list: the document's list as the rendering leaves it,
\* and the characters on the cards, in the order of the cards
render_character_list(characters, search, filter_role, sort_by) ==
    IF characters = <<>> THEN [characters |-> characters, cards |-> <<>>]
    ELSE IF search = "" /\ filter_role = "All"
    THEN [characters |-> SortedByKey(characters, sort_by),
          cards |-> SortedByKey(characters, sort_by)]
    ELSE [characters |-> characters,
          cards |-> SortedByKey(Filtered(characters, search, filter_role), sort_by)]

Pop(list, i) == SubSeq(list, 1, i - 1) \o SubSeq(list, i + 1, Len(list))

\* render_character_card, lines 141-145: novel_data['characters'].pop(index),
\* index being the position of the card (counted from 1 here)
delete_character(view, index) == Pop(view.characters, index)

\* render_add_character, lines 268-325: the list after Add Character, and
\* whether the submit raised; the dict of lines 272-317 evaluates
\* datetime.now() before the list is touched
add_character(characters, name, role) ==
    IF name = "" THEN [characters |-> characters, ok |-> FALSE, raised |-> FALSE]
    ELSE IF "datetime" \notin character_manager_globals
    THEN [characters |-> characters, ok |-> FALSE, raised |-> TRUE]
    ELSE [characters |-> Append(characters, [name |-> name, role |-> role,
                                              appearances |-> <<>>, relationships |-> <<>>]),
          ok |-> TRUE, raised |-> FALSE]

Related(characters, i, j) ==
    [k \in 1..Len(characters) |->
        IF k = i THEN [characters[k] EXCEPT !.relationships =
                          <<RelData(characters[j].name, "Friends", 5, 0)>>]
        ELSE IF k = j THEN [characters[k] EXCEPT !.relationships =
                               <<RelData(characters[i].name, "Friends", 5, 0)>>]
        ELSE characters[k]]

\* the characters of a stored document: distinct names, and no relationship
\* or one, stored on both sides
Casts ==
    LET plain == UNION {{cast \in [1..n -> [name : CastNames, role : Roles,
                                            appearances : {<<>>}, relationships : {<<>>}]] :
                            \A i, j \in 1..n : i # j => cast[i].name # cast[j].name}
                        : n \in 1..MaxCharacters}
    IN  plain \cup {Related(cast, i, j) :
                       cast \in {c \in plain : Len(c) >= 2}, i \in {1}, j \in {2}}

InitCast ==
    /\ clock = 0
    /\ \E cast \in Casts :
          /\ fs = OpenedFrom(SetKey(FullInput(DuneII), "characters", cast)).fs
          /\ novel_data = OpenedFrom(SetKey(FullInput(DuneII), "characters", cast)).doc
    /\ current_file_path = Created.path
    /\ unsaved_changes = FALSE
    /\ ret = NoReturn
    /\ prev = NoReturn
    /\ usedNames = {Created.path}
    /\ nBackups = 2
    /\ nFaults = 0
    /\ nOps = 0
    /\ pc = "idle"
    /\ sv = NoSave
    /\ last_auto_save = Unset
    /\ auto_save_toggle = TRUE
    /\ taken = NoneTaken
    /\ session = NoSession

\* Delete on the card at position index of the list as it is rendered
DeleteCharacter(search, filter_role, sort_by, index) ==
    LET view == render_character_list(Characters(novel_data), search, filter_role, sort_by)
    IN  /\ Idle
        /\ current_file_path # NoPath
        /\ index \in 1..Len(view.cards)
        /\ nOps' = nOps + 1
        /\ novel_data' = SetKey(novel_data, "characters", delete_character(view, index))
        /\ unsaved_changes' = TRUE
        /\ ret' = [NoReturn EXCEPT !.op = "delete_character", !.ok = TRUE,
                                   !.input = [card |-> view.cards[index],
                                              before |-> Characters(novel_data),
                                              search |-> search, filter_role |-> filter_role,
                                              sort_by |-> sort_by]]
        /\ prev' = ret
        /\ UNCHANGED <<clock, fs, current_file_path, usedNames, nBackups, nFaults, pc, sv,
                       last_auto_save, auto_save_toggle, taken, session>>

\* the Add Character form is submitted
AddCharacter(name, role) ==
    LET r == add_character(Characters(novel_data), name, role)
    IN  /\ Idle
        /\ current_file_path # NoPath
        /\ nOps' = nOps + 1
        /\ novel_data' = IF r.ok THEN SetKey(novel_data, "characters", r.characters)
                         ELSE novel_data
        /\ unsaved_changes' = IF r.ok THEN TRUE ELSE unsaved_changes
        /\ ret' = [NoReturn EXCEPT !.op = "add_character", !.ok = r.ok, !.raised = r.raised,
                                   !.input = [name |-> name, role |-> role]]
        /\ prev' = ret
        /\ UNCHANGED <<clock, fs, current_file_path, usedNames, nBackups, nFaults, pc, sv,
                       last_auto_save, auto_save_toggle, taken, session>>

NextCast ==
    \/ MoreCharacterOps
          /\ \E search \in Searches, filter_role \in RoleFilters, sort_by \in SortOrders :
                \E index \in 1..MaxCharacters :
                   DeleteCharacter(search, filter_role, sort_by, index)
    \/ MoreCharacterOps
          /\ \E name \in CastNames \cup {""}, role \in Roles : AddCharacter(name, role)
    \/ MoreCharacterOps
          /\ \E char1 \in NamesOf(Characters(novel_data)) :
                \E char2 \in NamesOf(Characters(novel_data)) \ {char1} :
                   \E t \in RelTypes, k \in Strengths : SetRelationship(char1, char2, t, k)
    \/ MoreCharacterOps
          /\ \E char1 \in NamesOf(Characters(novel_data)) :
                \E char2 \in NamesOf(Characters(novel_data)) \ {char1} :
                   ClearRelationship(char1, char2)

SpecCast == InitCast /\ [][NextCast]_vars

-----------------------------------------------------------------------------
(* FileManager.export_file.  An export lands in the exports directory      *)
(* under the stem of the document: <stem>_export.json, <stem>_export.txt,  *)
(* or pdf/<stem>.pdf.                                                      *)

ExportPath(stem, format) ==
    [dir |-> CASE format = "json" -> "exports.json"
               [] format = "txt" -> "exports.txt"
               [] OTHER -> "exports/pdf",
     stem |-> stem, ts |-> 0]

Exports(f) == {p \in DOMAIN f : p.dir \in {"exports.json", "exports.txt", "exports/pdf"}}

\* _export_to_txt: title and author, then every chapter in list order
export_to_txt(data) ==
    <<<<"Title", Get(data, "title", Untitled)>>, <<"Author", Get(data, "author", "Unknown")>>>>
    \o [i \in 1..Len(Chapters(data)) |->
            <<"Chapter", Get(Chapters(data)[i], "number", 1),
              Get(Chapters(data)[i], "title", ""), Get(Chapters(data)[i], "content", <<>>)>>]

\* mutant: the txt target is a placeholder as well
export_file_txt_unwritten(f, now, filepath, format) ==
    IF filepath \notin DOMAIN f \/ ~json_valid(f[filepath].text)
    THEN Outcome(FALSE, <<"Export failed">>, NoPath, EmptyDict, f, NoPath, "none")
    ELSE LET data == json_load(f[filepath].text)
             export_path == ExportPath(filepath.stem, format)
         IN  CASE format = "json" ->
                    Outcome(TRUE, <<"Export successful">>, export_path, data,
                            Put(f, export_path, File(json_dump(data), now)), NoPath, "none")
               [] format \in {"txt", "pdf"} ->
                    Outcome(TRUE, <<"Export successful">>, export_path, data, f, NoPath, "none")
               [] OTHER ->
                    Outcome(FALSE, <<"Unsupported format">>, NoPath, data, f, NoPath, "none")

(* FileManager.export_file; _export_to_pdf is `pass` *)
export_file(f, now, filepath, format) ==
    IF filepath \notin DOMAIN f \/ ~json_valid(f[filepath].text)
    THEN Outcome(FALSE, <<"Export failed">>, NoPath, EmptyDict, f, NoPath, "none")
    ELSE LET data == json_load(f[filepath].text)
             export_path == ExportPath(filepath.stem, format)
         IN  CASE format = "json" ->
                    Outcome(TRUE, <<"Export successful">>, export_path, data,
                            Put(f, export_path, File(json_dump(data), now)), NoPath, "none")
               [] format = "txt" ->
                    Outcome(TRUE, <<"Export successful">>, export_path, data,
                            Put(f, export_path, File(export_to_txt(data), now)), NoPath, "none")
               [] format = "pdf" ->
                    Outcome(TRUE, <<"Export successful">>, export_path, data, f, NoPath, "none")
               [] OTHER ->
                    Outcome(FALSE, <<"Unsupported format">>, NoPath, data, f, NoPath, "none")

Formats == {"json", "txt", "pdf", "docx"}

\* a caller exports a stored document
Export(filepath, format) ==
    /\ Idle
    /\ nOps' = nOps + 1
    /\ LET o == export_file(fs, clock, filepath, format)
       IN  /\ fs' = o.fs
           /\ ret' = [Returned("export", o, EmptyDict) EXCEPT !.input = [format |-> format]]
           /\ prev' = ret
    /\ UNCHANGED <<clock, current_file_path, novel_data, unsaved_changes,
                   usedNames, nBackups, nFaults, pc, sv,
                   last_auto_save, auto_save_toggle, taken, session>>

NextExport ==
    \/ Tick
    \/ Within /\ \E p \in usedNames, format \in Formats : Export(p, format)
    \/ Within /\ \E s \in Statuses : UpdateNovelStatus(s)
    \/ Within /\ Save({})

SpecExport == InitChapter /\ [][NextExport]_vars

-----------------------------------------------------------------------------
(* Several documents of one store.  The store starts with a document       *)
(* created in each of the seconds 0..7, every one with the backup that     *)
(* create_new_novel made of it; further documents are created, opened and  *)
(* saved from there, and no step fails.  The caller of this run knows the  *)
(* newest of the stored documents and the ones it creates itself.          *)

RECURSIVE CreatedUntil(_)
CreatedUntil(t) ==
    IF t = 0 THEN Created.fs
    ELSE (CHOOSE o \in create_new_novel(CreatedUntil(t - 1), t, FullInput(DuneII), {}) :
             o.ok).fs

InitSeveral ==
    /\ clock = Cardinality(EarlyBackups)
    /\ fs = CreatedUntil(Cardinality(EarlyBackups))
    /\ current_file_path = NoPath
    /\ novel_data = EmptyDict
    /\ unsaved_changes = FALSE
    /\ ret = NoReturn
    /\ prev = NoReturn
    /\ usedNames = {p \in Dir(CreatedUntil(Cardinality(EarlyBackups)), "novels") :
                        CreatedUntil(Cardinality(EarlyBackups))[p].mtime
                            = Cardinality(EarlyBackups)}
    /\ nBackups = 1 + Cardinality(EarlyBackups)
    /\ nFaults = 0
    /\ nOps = 0
    /\ pc = "idle"
    /\ sv = NoSave
    /\ last_auto_save = Unset
    /\ auto_save_toggle = TRUE
    /\ taken = NoneTaken
    /\ session = NoSession

NextSeveral ==
    \/ TickLong
    \/ Within /\ \E t \in Titles : Create(FullInput(t), {})
    \/ Within /\ \E p \in usedNames : Open(p, {})
    \/ Within /\ Save({})

SpecSeveral == InitSeveral /\ [][NextSeveral]_vars

-----------------------------------------------------------------------------
(* Properties of the store *)

Required == {"title", "author", "genre", "language"}

\* C1: when a create that succeeded is followed by an open of the path it
\* returned, the open succeeds and the document it returns carries the
\* title, author, genre and language that were given to the create.
C1_CreateOpenRoundTrip ==
    (ret.op = "open" /\ prev.op = "create" /\ prev.ok /\ ret.path = prev.path)
        => /\ ret.ok
           /\ Required \subseteq DOMAIN ret.doc
           /\ \A k \in Required : ret.doc[k] = prev.input[k]

\* a create of the title whose file name differs from it, then an open
C1_Witness ==
    /\ ret.op = "open" /\ prev.op = "create" /\ prev.ok /\ ret.path = prev.path
    /\ ret.ok
    /\ safe_title(prev.input["title"]) # prev.input["title"]
    /\ ret.doc["title"] = prev.input["title"]

MissingFields(input) == Required \ DOMAIN input

\* C4: a create whose input lacks one of the required fields returns
\* failure, its message names that field, and it writes nothing: the disk,
\* and so the file sets of the store and of the backup directory, stay as
\* they were.
C4_MissingFieldWritesNothing ==
    [][\A input \in CreateInputs :
          (Create(input, {}) /\ Cardinality(MissingFields(input)) = 1)
              => /\ ~ret'.ok
                 /\ \E k \in MissingFields(input) :
                        ret'.msg = <<"Missing required field", k>>
                 /\ fs' = fs
                 /\ usedNames' = usedNames]_vars

\* a create without language was refused while the store held documents
C4_Witness ==
    /\ ret.op = "create" /\ ~ret.ok
    /\ MissingFields(ret.input) = {"language"}
    /\ ret.msg = <<"Missing required field", "language">>
    /\ Dir(fs, "novels") # {} /\ Dir(fs, "backups") # {}

StripModifiedVersion(d) ==
    IF "metadata" \in DOMAIN d
    THEN SetKey(d, "metadata",
                Restrict(d["metadata"], DOMAIN d["metadata"] \ {"modified", "version"}))
    ELSE d

\* C9: when a save is followed by another save of the same document with no
\* change in between, the file parses after the second save to what it
\* parsed to after the first, apart from metadata.modified and
\* metadata.version.
C9_SaveTwiceSameContent ==
    (ret.op = "save" /\ ret.ok /\ prev.op = "save" /\ prev.ok)
        => /\ ret.path = prev.path
           /\ json_valid(ret.stored) /\ json_valid(prev.stored)
           /\ StripModifiedVersion(json_load(ret.stored))
                = StripModifiedVersion(json_load(prev.stored))

\* two saves in a row of the open document, in different seconds
C9_Witness ==
    /\ ret.op = "save" /\ ret.ok /\ prev.op = "save" /\ prev.ok
    /\ json_load(ret.stored)["metadata"]["modified"]
         # json_load(prev.stored)["metadata"]["modified"]
    /\ json_load(ret.stored)["metadata"]["version"]
         = json_load(prev.stored)["metadata"]["version"] + 1

Archives(f) == Dir(f, "archives")

\* C5: a successful delete that archives leaves no file at the path and
\* exactly one new file in the archive directory, holding what the deleted
\* file held, and it leaves every archive file that existed as it was.
C5_ArchiveAddsOneFile ==
    [][\A p \in usedNames :
          (Delete(p, TRUE) /\ ret'.ok)
              => /\ p \notin DOMAIN fs'
                 /\ Cardinality(Archives(fs') \ Archives(fs)) = 1
                 /\ \A a \in Archives(fs') \ Archives(fs) : fs'[a].text = fs[p].text
                 /\ \A a \in Archives(fs) : a \in Archives(fs') /\ fs'[a] = fs[a]]_vars

Documents(f) == {p \in Dir(f, "novels") : json_valid(f[p].text)}

FileIdOf(f, p) == json_load(f[p].text)["metadata"]["file_id"]

C10_UniqueFileIds ==
    \A p, q \in Documents(fs) : p # q => FileIdOf(fs, p) # FileIdOf(fs, q)

C10_NamesNeverReused ==
    [][\A t \in Titles :
          (Create(FullInput(t), {}) /\ ret'.ok) => ret'.path \notin usedNames]_vars

\* C10: no two documents of the store have the same metadata.file_id, and
\* no create produces a file name that an earlier document of the store
\* had, deleted and archived ones included.
C10_UniqueIdsAndNames == []C10_UniqueFileIds /\ C10_NamesNeverReused

-----------------------------------------------------------------------------
(* Properties under injected failures *)

\* C7: when the backup step of a create or of a save fails, the operation
\* still returns success and the document file holds the whole document;
\* the failure does not reach the caller.
C7_BackupFailureSwallowed ==
    (ret.op \in {"create", "save"} /\ ret.fault \in {"copy", "clean"})
        => /\ ret.ok
           /\ ret.path \in DOMAIN fs
           /\ json_valid(fs[ret.path].text)
           /\ json_load(fs[ret.path].text) = ret.doc

\* a save whose backup copy failed
C7_Witness ==
    /\ ret.op = "save" /\ ret.fault = "copy" /\ ret.backup = NoPath
    /\ ret.ok /\ json_valid(ret.stored)

-----------------------------------------------------------------------------
(* Properties of an interruptible save *)

\* C2: while save_file runs, and after it was interrupted at any step, the
\* target path holds the whole document it held before the call or the
\* whole new document, never a part of one.
C2_TargetNeverHalfWritten ==
    (pc # "idle" \/ ret.op = "interrupted")
        => IF sv.path \in DOMAIN fs
           THEN /\ json_valid(fs[sv.path].text)
                /\ \/ fs[sv.path].text = sv.text
                   \/ sv.existed /\ fs[sv.path].text = sv.before
           ELSE ~sv.existed

\* a save was interrupted while its temporary file was half-written and the
\* target still holds the previous document
C2_Witness ==
    /\ ret.op = "interrupted"
    /\ sv.caller = "save"
    /\ TempPath(sv.path) \in DOMAIN fs
    /\ Len(fs[TempPath(sv.path)].text) \in 1..(Len(sv.text) - 1)
    /\ sv.path \in DOMAIN fs
    /\ fs[sv.path].text = sv.before /\ sv.before # sv.text

-----------------------------------------------------------------------------
(* Properties of the backups of one document *)

Backups(f) == Dir(f, "backups")

C3_Count == Cardinality(Backups(fs)) = Min({nBackups, KeepBackups})

C3_OldestRemoved ==
    [][\A d \in Backups(fs) \ Backups(fs') :
          \A k \in Backups(fs') : fs[d].mtime <= fs'[k].mtime]_vars

\* C3: after N backups of the document, min(N, 10) backup files exist, and
\* the backups that were removed are older than every backup that is kept.
C3_MinOfCallsAndTen == []C3_Count /\ C3_OldestRemoved

-----------------------------------------------------------------------------
(* Properties of the relationships *)

EntriesWith(character, name) ==
    {i \in 1..Len(character.relationships) : character.relationships[i].with = name}

HasOneEntry(character, name, rel_type, strength) ==
    /\ Cardinality(EntriesWith(character, name)) = 1
    /\ \A i \in EntriesWith(character, name) :
          /\ character.relationships[i].type = rel_type
          /\ character.relationships[i].strength = strength

SetJustDone == ret.op = "set_relationship"

ClearAfterSet ==
    /\ ret.op = "clear_relationship"
    /\ prev.op = "set_relationship"
    /\ ret.input.char1 = prev.input.char1 /\ ret.input.char2 = prev.input.char2

NoEntriesBetween(characters, a, b) ==
    \A i \in 1..Len(characters) :
        /\ characters[i].name = a => EntriesWith(characters[i], b) = {}
        /\ characters[i].name = b => EntriesWith(characters[i], a) = {}

\* C6: after set_relationship(A, B, ...) every character named A
\* has exactly one entry with B and every character named B exactly one
\* with A, of the type and strength given; after clear_relationship(A, B)
\* neither has an entry naming the other.
C6_EveryCharacterOfTheName ==
    LET characters == Characters(novel_data)
    IN  /\ SetJustDone =>
              \A i \in 1..Len(characters) :
                  /\ characters[i].name = ret.input.char1 =>
                        HasOneEntry(characters[i], ret.input.char2,
                                    ret.input.type, ret.input.strength)
                  /\ characters[i].name = ret.input.char2 =>
                        HasOneEntry(characters[i], ret.input.char1,
                                    ret.input.type, ret.input.strength)
        /\ ClearAfterSet => NoEntriesBetween(characters, ret.input.char1, ret.input.char2)

-----------------------------------------------------------------------------
(* Properties of the validation *)

ChaptersOf(f, p) == Get(json_load(f[p].text), "chapters", <<>>)

RootComplete(f, p) ==
    json_valid(f[p].text) /\ {"title", "author", "metadata"} \subseteq DOMAIN json_load(f[p].text)

LackingContent(chapters) == {i \in 1..Len(chapters) : "content" \notin DOMAIN chapters[i]}

\* C8: validating a document whose only defect is one chapter without the
\* content key returns valid = true, and a warning names that chapter by
\* its chapter number as missing content.
C8_WarningNamesChapterNumber ==
    ret.op = "validate_file_integrity" =>
        LET chapters == ChaptersOf(fs, ret.path)
        IN  RootComplete(fs, ret.path) /\ Cardinality(LackingContent(chapters)) = 1 =>
                /\ ret.result.valid
                /\ \A i \in LackingContent(chapters) :
                      \E w \in 1..Len(ret.result.warnings) :
                          ret.result.warnings[w] =
                              <<"Chapter ", chapters[i]["number"], " missing content">>

StatisticsKeys == {"total_chapters", "total_characters", "total_words", "total_chars"}

Validated == ret.op = "validate_file_integrity"

-----------------------------------------------------------------------------
(* Properties of the listing *)

\* C16: get_file_list returns exactly one summary for every .novel file of
\* the store directory, whatever the store holds, and none for a backup, an
\* archive or a temporary file.
C16_OneSummaryPerDocument ==
    ret.op = "get_file_list" =>
        /\ {ret.result[i].filepath : i \in 1..Len(ret.result)} = Dir(fs, "novels")
        /\ Len(ret.result) = Cardinality(Dir(fs, "novels"))

-----------------------------------------------------------------------------
(* Properties of the auto-save *)

RunDone == ret.op = "run"

\* the check of the last run was due: changes flagged, and more than
\* AutoSaveAfter seconds since the recorded time of the last auto-save
Due == ret.flagged /\ ret.since # Unset /\ ret.at - ret.since > AutoSaveAfter

AutoSaveEnabled == auto_save_toggle /\ current_file_path # NoPath

LongestPass == CHOOSE d \in PassSteps : \A e \in PassSteps : e <= d

\* changes are flagged and the recorded time leaves more than
\* AutoSaveAfter seconds before the clock of the model ends
FlaggedInTime ==
    /\ AutoSaveEnabled /\ unsaved_changes
    /\ last_auto_save # Unset
    /\ last_auto_save + AutoSaveAfter + LongestPass <= MaxAutoClock

C18_EventuallyTriggered ==
    FlaggedInTime ~> ((RunDone /\ ret.auto_saved) \/ ~unsaved_changes \/ ~AutoSaveEnabled)

C18_SuccessClearsFlag ==
    RunDone /\ ret.auto_saved /\ ret.ok => ~unsaved_changes

-----------------------------------------------------------------------------
(* Properties of the store, continued *)

\* C11: a create that follows a successful create of the same title in the
\* same second fails with "File already exists" and leaves the disk, and so
\* the file of the first create, as it was.
C11_CollisionSurfaced ==
    [][\A t \in Titles :
          (/\ Create(FullInput(t), {})
           /\ ret.op = "create" /\ ret.ok /\ ret.input = FullInput(t)
           /\ ret.path = NovelPath(<<safe_title(t), generate_file_id(t, clock)>>))
          => (/\ ~ret'.ok
              /\ ret'.msg = <<"File already exists">>
              /\ fs' = fs)]_vars

C11_Witness ==
    /\ ret.op = "create" /\ ~ret.ok /\ ret.msg = <<"File already exists">>
    /\ prev.op = "create" /\ prev.ok /\ prev.input = ret.input
    /\ prev.path \in DOMAIN fs /\ fs[prev.path].text = prev.stored

\* C12: no operation of the store lets an exception escape to its caller.
C12_NoExceptionEscapes == ~ret.raised

CreatedDuneII == ret.op = "create" /\ ret.ok /\ ret.input = FullInput(DuneII)

HexId(name, from) ==
    \A i \in from..(from + 7) : \E h \in 1..Len(HexDigits) : name[i] = HexDigits[h]

StoredAsNew(p) ==
    /\ p \in Dir(fs, "novels")
    /\ json_valid(fs[p].text)
    /\ json_load(fs[p].text)["metadata"]["version"] = 10
    /\ json_load(fs[p].text)["metadata"]["word_count"] = 0

\* C13: creating "Dune II" by "A", genre ["Sci-Fi"], language "English"
\* succeeds and stores a file named Dune_II_<8 hex characters>.novel with
\* metadata.version "1.0" and metadata.word_count 0.
C13_NamedWithUnderscore ==
    ret.op = "create" /\ ret.input = FullInput(DuneII) /\ prev.op = "none" =>
        /\ ret.ok
        /\ LET name == Filename(ret.path)
           IN  /\ Len(name) = 17
               /\ SubSeq(name, 1, 8) = <<"D", "u", "n", "e", "_", "I", "I", "_">>
               /\ HexId(name, 9)
               /\ name[17] = ".novel"
        /\ StoredAsNew(ret.path)

\* C13, amended: the file is named "Dune II_<8 hex characters>.novel", the
\* space of the title kept.
C13_NamedWithSpace ==
    ret.op = "create" /\ ret.input = FullInput(DuneII) /\ prev.op = "none" =>
        /\ ret.ok
        /\ LET name == Filename(ret.path)
           IN  /\ Len(name) = 17
               /\ SubSeq(name, 1, 8) = <<"D", "u", "n", "e", " ", "I", "I", "_">>
               /\ HexId(name, 9)
               /\ name[17] = ".novel"
        /\ StoredAsNew(ret.path)

C13_Witness == CreatedDuneII /\ prev.op = "none" /\ StoredAsNew(ret.path)

\* C14: a successful save_as(old_path, new_title) adds exactly one document
\* file; its title is new_title, its file_id differs from the source's,
\* its chapters and characters are the source's; the file at old_path is
\* as it was.
C14_SaveAsCopies ==
    [][\A p \in usedNames, t \in Titles :
          (SaveAs(p, t, {}) /\ ret'.ok) =>
              LET source == json_load(fs[p].text)
                  copy == json_load(fs'[ret'.path].text)
              IN  /\ ret'.path \notin DOMAIN fs
                  /\ Dir(fs', "novels") = Dir(fs, "novels") \cup {ret'.path}
                  /\ copy["title"] = t
                  /\ copy["metadata"]["file_id"] # source["metadata"]["file_id"]
                  /\ copy["chapters"] = source["chapters"]
                  /\ copy["characters"] = source["characters"]
                  /\ fs'[p] = fs[p]]_vars

C14_Witness ==
    /\ ret.op = "save_as" /\ ret.ok
    /\ ret.path \in DOMAIN fs
    /\ json_load(fs[ret.path].text)["chapters"] # <<>>
    /\ json_load(fs[ret.path].text)["characters"] # <<>>
    /\ Cardinality(Dir(fs, "novels")) = 2

\* the last call was restore_backup(b, path) of a backup b that an explicit
\* create_backup(path) returned and that exists
RestoredTaken ==
    /\ ret.op = "restore"
    /\ ret.backup \in DOMAIN taken
    /\ ret.backup.stem = ret.path.stem

\* C19: restore_backup(b, path) of an existing backup b that
\* create_backup(path) returned, after any later saves of path, returns
\* true, leaves path with the content it had when b was taken, and leaves
\* b as it was.
C19_RestoreGivesBackedUpContent ==
    RestoredTaken =>
        /\ ret.ok
        /\ ret.path \in DOMAIN fs /\ fs[ret.path].text = taken[ret.backup]
        /\ ret.backup \in DOMAIN fs /\ fs[ret.backup].text = taken[ret.backup]

\* metadata.version of the document stored at p, in tenths
StoredVersion(f, p) == VersionOf(json_load(f[p].text))

Versioned(f, p) ==
    /\ p \in DOMAIN f
    /\ json_valid(f[p].text)
    /\ "metadata" \in DOMAIN json_load(f[p].text)

NeverSmaller ==
    \A p \in usedNames :
        Versioned(fs, p) /\ Versioned(fs', p) => StoredVersion(fs', p) >= StoredVersion(fs, p)

SaveRaisesByOneTenth ==
    /\ ret'.op = "save" /\ ret'.ok /\ nOps' = nOps + 1
    /\ Versioned(fs, ret'.path)
    => StoredVersion(fs', ret'.path) = StoredVersion(fs, ret'.path) + 1

\* C20: the version of the document stored at a path never becomes smaller
\* under save, open, create_backup and restore_backup, and every
\* successful save_file raises it by 0.1 over the stored value.
C20_VersionMonotone == [][NeverSmaller /\ SaveRaisesByOneTenth]_vars

-----------------------------------------------------------------------------
(* Properties of the chapter page *)

UniqueNumbers(chapters) ==
    \A i, j \in 1..Len(chapters) : i # j => chapters[i]["number"] # chapters[j]["number"]

\* the last run pressed Save Chapter or Save & Continue in the editor of a
\* new chapter
NewChapterSaved ==
    ret.op = "chapters" /\ ret.button \in {"save", "continue"} /\ ret.new

Kept(before, chapters) ==
    \A i \in 1..Len(before) :
        \E j \in 1..Len(chapters) :
            /\ chapters[j]["number"] = before[i]["number"]
            /\ chapters[j]["title"] = before[i]["title"]
            /\ chapters[j]["content"] = before[i]["content"]

\* C21: after any run of the chapter page no two chapters share a number,
\* and saving the editor of a new chapter adds a chapter numbered
\* max(existing) + 1 (1 in an empty document) and leaves every existing
\* chapter in the list.
C21_UniqueNumbersNextOnCreate ==
    ret.op = "chapters" =>
        /\ UniqueNumbers(Chapters(novel_data))
        /\ NewChapterSaved =>
              /\ ~ret.raised
              /\ ret.number = (IF ret.before = <<>> THEN 1
                               ELSE Max(ChapterNumbers(ret.before)) + 1)
              /\ ret.number \in ChapterNumbers(Chapters(novel_data))
              /\ Len(Chapters(novel_data)) = Len(ret.before) + 1
              /\ Kept(ret.before, Chapters(novel_data))

StrictlyAscending(chapters) ==
    \A i \in 1..Len(chapters) - 1 : chapters[i]["number"] < chapters[i + 1]["number"]

StoredDocument == json_load(fs[current_file_path].text)

\* C24: whenever a document is open and unsaved_changes is false, the
\* session's document equals the document stored at current_file_path:
\* every change of the session's document, rendering included, sets the
\* flag.
C24_UnflaggedMeansStored ==
    current_file_path # NoPath /\ ~unsaved_changes =>
        /\ current_file_path \in DOMAIN fs
        /\ json_valid(fs[current_file_path].text)
        /\ novel_data = StoredDocument

\* the last run pressed Save Chapter or Save & Continue in the editor of an
\* existing chapter
ExistingChapterSaved ==
    ret.op = "chapters" /\ ret.button \in {"save", "continue"} /\ ~ret.new

\* chapter b has every field of chapter a, with the same value
Extends(b, a) == \A k \in DOMAIN a : k \in DOMAIN b /\ b[k] = a[k]

\* C28: saving the editor of an existing chapter replaces that chapter in
\* place: it keeps its position, its created stamp and its scenes, and every
\* other chapter is as it was.
C28_UpdateInPlace ==
    ExistingChapterSaved =>
        LET before == ret.before
            chapters == Chapters(novel_data)
            i == ChapterIndex(before, ret.number)
        IN  /\ ~ret.raised
            /\ Len(chapters) = Len(before)
            /\ chapters[i]["number"] = ret.number
            /\ chapters[i]["created"] = before[i]["created"]
            /\ "scenes" \in DOMAIN before[i] =>
                   "scenes" \in DOMAIN chapters[i] /\ chapters[i]["scenes"] = before[i]["scenes"]
            /\ \A j \in 1..Len(before) : j # i => Extends(chapters[j], before[j])

-----------------------------------------------------------------------------
(* Properties of the store: what an open leaves on the disk *)

\* the step is a successful open_novel of a stored document with metadata
OpenedStep ==
    /\ nOps' = nOps + 1 /\ ret'.op = "open" /\ ret'.ok
    /\ Versioned(fs, ret'.path) /\ Versioned(fs', ret'.path)

\* the document with metadata.last_opened set to the time of the open
StampedOpened(d, now) ==
    SetKey(d, "metadata", SetKey(d["metadata"], "last_opened", now))

OnlyLastOpenedChanged ==
    OpenedStep =>
        /\ json_load(fs'[ret'.path].text) = StampedOpened(json_load(fs[ret'.path].text), clock)
        /\ ret'.doc = json_load(fs'[ret'.path].text)

\* C22: a successful open_novel changes the stored document only in
\* metadata.last_opened (version and modified stay as they were), and the
\* document it returns is the document now on the disk.
C22_OpenOnlyStampsLastOpened == [][OnlyLastOpenedChanged]_vars

-----------------------------------------------------------------------------
(* Properties of the character list *)

CharacterSet(characters) == {characters[i] : i \in 1..Len(characters)}

\* C25: Delete on a character card removes exactly the character the card
\* shows and leaves every other character as it was, whatever search text,
\* role filter and sort order the list was rendered with.
C25_DeleteRemovesShownCharacter ==
    ret.op = "delete_character" =>
        CharacterSet(Characters(novel_data)) = CharacterSet(ret.input.before) \ {ret.input.card}

\* every entry names a character of the list, whose own list holds the
\* entry of the other direction
Symmetric(characters) ==
    \A i \in 1..Len(characters) :
        \A k \in 1..Len(characters[i].relationships) :
            LET r == characters[i].relationships[k]
            IN  \E j \in 1..Len(characters) :
                   /\ characters[j].name = r.with
                   /\ \E m \in 1..Len(characters[j].relationships) :
                         /\ characters[j].relationships[m].with = characters[i].name
                         /\ characters[j].relationships[m].type = r.type
                         /\ characters[j].relationships[m].strength = r.strength

\* C26: after any sequence of add, delete, set_relationship and
\* clear_relationship, every stored relationship entry names a character
\* that is in the document, and that character holds the reverse entry.
C26_RelationshipsSymmetric == Symmetric(Characters(novel_data))

-----------------------------------------------------------------------------
(* Properties of the session: a deleted document *)

OpenDocumentExists == current_file_path # NoPath => current_file_path \in DOMAIN fs

\* the step is a save of the session's document, by the Save button or by
\* the auto-save check
SavedStep ==
    /\ ret'.op = "run" /\ nOps' = nOps + 1
    /\ ret'.event = "save" \/ ret'.auto_saved

NoSaveRecreates ==
    SavedStep => \A p \in usedNames : p \notin DOMAIN fs => p \notin DOMAIN fs'

\* C27: once the open document has been deleted or archived through the
\* delete confirmation, no manual save and no auto-save creates a file at
\* its path again, and whenever the session has a current_file_path a
\* document file exists at that path.
C27_DeletedStaysDeleted == [][OpenDocumentExists' /\ NoSaveRecreates]_vars

-----------------------------------------------------------------------------
(* Properties of the export *)

ExportStep == nOps' = nOps + 1 /\ ret'.op = "export"

Supported == {"json", "txt", "pdf"}

UnsupportedRefused ==
    ExportStep /\ ret'.input.format \notin Supported =>
        ~ret'.ok /\ Exports(fs') = Exports(fs) /\ fs' = fs

\* C29 as stated: whenever export_file returns success a file exists at the
\* returned path, for json, txt and pdf alike; any other format is refused
\* and writes no export file.
C29_SuccessMeansFile ==
    [][/\ ExportStep /\ ret'.ok => ret'.path \in DOMAIN fs'
       /\ UnsupportedRefused]_vars

\* C29, amended: a successful json or txt export leaves a file at the
\* returned path; a pdf export of a readable document returns success and
\* writes nothing, so no file exists at the path it returns; any other
\* format is refused and writes no export file.
C29_JsonTxtWrittenPdfNot ==
    [][/\ ExportStep /\ ret'.ok /\ ret'.input.format \in {"json", "txt"} =>
             ret'.path \in DOMAIN fs'
       /\ ExportStep /\ ret'.input.format = "pdf" =>
             /\ ret'.ok <=> (ret'.path # NoPath)
             /\ ret'.ok => ret'.path \notin DOMAIN fs' /\ fs' = fs
       /\ UnsupportedRefused]_vars

C29_Witness ==
    /\ ret.op = "export" /\ ret.ok /\ ret.input.format = "txt"
    /\ ret.path \in DOMAIN fs
    /\ prev.op = "export" /\ prev.ok /\ prev.input.format = "pdf" /\ prev.path \notin DOMAIN fs


\* the backups of the document at p
BackupsOf(f, p) == {b \in Backups(f) : b.stem = p.stem}

\* C30: after any sequence of create and save operations (autoBackup on) on
\* several documents of one store in which no backup step fails, every
\* document file present in the store has at least one backup of itself in
\* the backup directory.
C30_EveryDocumentBackedUp ==
    \A p \in Dir(fs, "novels") : BackupsOf(fs, p) # {}

====
